---- MODULE Spec2Model ----
(***************************************************************************)
(* The resource agent command / state-machine core of coi-services:        *)
(* src/agent_refactor/agent.py (ResourceAgent) on top of the InstrumentFSM *)
(* engine.  The engine (ion/agents/instrument/instrument_fsm.py) and       *)
(* BaseEnum (ion/agents/instrument/common.py) are modelled from spec.md    *)
(* section 4.1; everything else is translated from agent.py.               *)
(***************************************************************************)
EXTENDS Integers, Sequences, FiniteSets, TLC

VARIABLES
    initial_state,   \* ResourceAgent._initial_state: [kwarg, set, value]; kwarg is the constructor's
                     \* initial_state argument, set = FALSE when the attribute was never assigned
    state_handlers,  \* InstrumentFSM transition table: (state, event) -> handler
    current_state,   \* InstrumentFSM current-state cursor (None before start)
    phase,           \* "constructed" (after __init__), "started" (after _on_init), "failed" (_on_init raised)
    nreg,            \* number of add_handler calls made by the specializing layer
    overwrites,      \* history kept by RegisterTracked: for each pair registered more than once,
                     \* the handler the latest add_handler call replaced (old) and the one it
                     \* was given (new)
    last,            \* the last call made on the agent and what the caller got back
    world,           \* two agents of one process: their FSM objects and who acted last
                     \* (None where the single agent above is the subject)
    conc,            \* callers sending commands to the agent at the same time (None where
                     \* calls are made one at a time)
    log,             \* every observability record the agent wrote, in order (None where
                     \* the records of the last call are enough)
    client,          \* a ResourceAgentClient and the directory it looks its agent up in
    launcher,        \* a Launcher, the process dispatcher it talks to and the process launched
    store,           \* a parser's document and the stored-value manager its output goes to
    streams          \* a CTD transform, the packet it received and what it published

\* The parts that take no part in the agent's own operations; each is None
\* except in the specification that is about it.
aside == <<log, client, launcher, store, streams>>

vars ==
    <<initial_state, state_handlers, current_state, phase, nreg, overwrites, last, world,
      conc, log, client, launcher, store, streams>>

----------------------------------------------------------------------------
(* Vocabulary: agent.py lines 48-86.                                       *)

None == "None"

POWERED_DOWN  == "RESOURCE_AGENT_STATE_POWERED_DOWN"
UNINITIALIZED == "RESOURCE_AGENT_STATE_UNINITIALIZED"
INACTIVE      == "RESOURCE_AGENT_STATE_INACTIVE"
IDLE          == "RESOURCE_AGENT_STATE_IDLE"
STOPPED       == "RESOURCE_AGENT_STATE_STOPPED"
COMMAND       == "RESOURCE_AGENT_STATE_COMMAND"
STREAMING     == "RESOURCE_AGENT_STATE_STREAMING"
TEST          == "RESOURCE_AGENT_STATE_TEST"
CALIBRATE     == "RESOURCE_AGENT_STATE_CALIBRATE"
DIRECT_ACCESS == "RESOUCE_AGENT_STATE_DIRECT_ACCESS"
BUSY          == "RESOURCE_AGENT_STATE_BUSY"

ResourceAgentState ==
    { POWERED_DOWN, UNINITIALIZED, INACTIVE, IDLE, STOPPED, COMMAND,
      STREAMING, TEST, CALIBRATE, DIRECT_ACCESS, BUSY }

ENTER            == "RESOURCE_AGENT_EVENT_ENTER"
EXIT             == "RESOURCE_AGENT_EVENT_EXIT"
POWER_UP         == "RESOURCE_AGENT_EVENT_POWER_UP"
POWER_DOWN       == "RESOURCE_AGENT_EVENT_POWER_DOWN"
INITIALIZE       == "RESOURCE_AGENT_EVENT_INITIALIZE"
RESET            == "RESOURCE_AGENT_EVENT_RESET"
GO_ACTIVE        == "RESOURCE_AGENT_EVENT_GO_ACTIVE"
GO_INACTIVE      == "RESOURCE_AGENT_EVENT_GO_INACTIVE"
RUN              == "RESOURCE_AGENT_EVENT_RUN"
CLEAR            == "RESOURCE_AGENT_EVENT_CLEAR"
PAUSE            == "RESOURCE_AGENT_EVENT_PAUSE"
RESUME           == "RESOURCE_AGENT_EVENT_RESUME"
GO_COMMAND       == "RESOURCE_AGENT_EVENT_GO_COMMAND"
GO_DIRECT_ACCESS == "RESOURCE_AGENT_EVENT_GO_DIRECT_ACCESS"
GET_RESOURCE     == "RESOURCE_AGENT_EVENT_GET_RESOURCE"
SET_RESOURCE     == "RESOURCE_AGENT_EVENT_SET_RESOURCE"
EXECUTE_RESOURCE == "RESOURCE_AGENT_EVENT_EXECUTE_RESOURCE"
GET_RESOURCE_STATE        == "RESOURCE_AGENT_EVENT_GET_RESOURCE_STATE"
GET_RESOURCE_CAPABILITIES == "RESOURCE_AGENT_EVENT_GET_RESOURCE_CAPABILITIES"

ResourceAgentEvent ==
    { ENTER, EXIT, POWER_UP, POWER_DOWN, INITIALIZE, RESET, GO_ACTIVE,
      GO_INACTIVE, RUN, CLEAR, PAUSE, RESUME, GO_COMMAND, GO_DIRECT_ACCESS,
      GET_RESOURCE, SET_RESOURCE, EXECUTE_RESOURCE, GET_RESOURCE_STATE,
      GET_RESOURCE_CAPABILITIES }

\* BaseEnum.has: membership of a value in the enumeration.
has(enum, value) == value \in enum

----------------------------------------------------------------------------
(* Bounds and input sets.                                                  *)

\* How many add_handler calls the specializing layer makes in its
\* _construct_fsm override.
MaxHandlers == 2

\* A value that is no member of ResourceAgentState.
BogusState == "BOGUS_STATE"

\* The initial_state keyword argument of the constructor: absent (None,
\* giving a state the specializing layer does not wire), a known state
\* that it wires, or an unknown value.
InitialStateArgs == {None, IDLE, BogusState}

\* The same with every known state, for construction and start-up.
AllInitialStateArgs == {None, BogusState} \cup ResourceAgentState

\* Where and for what the specializing layer registers handlers.
HandlerStates == {IDLE, COMMAND}
HandlerEvents ==
    { RUN, GET_RESOURCE, SET_RESOURCE, EXECUTE_RESOURCE, GET_RESOURCE_STATE,
      GET_RESOURCE_CAPABILITIES }

\* The handlers of the specializing layer: what a handler's semantics
\* defines as next state (None: no transition), what it returns and the
\* exception it raises instead (None: it returns).
UserHandlers ==
    { [kind |-> "user", next |-> None,    result |-> "r1", raises |-> None],
      [kind |-> "user", next |-> COMMAND, result |-> "r2", raises |-> None] }

\* A defective handler: its body raises an exception of its own, which is
\* not the FSM's FSMStateError.
FailingHandlers ==
    { [kind |-> "user", next |-> COMMAND, result |-> "r3", raises |-> "ValueError"] }

\* Caller-supplied commands (AgentCommand).  null = TRUE is command=None.
NoArgs   == [null |-> TRUE,  items |-> << >>]
SomeArgs == [null |-> FALSE, items |-> <<"a">>]
NoKwargs   == [null |-> TRUE,  items |-> {}]
SomeKwargs == [null |-> FALSE, items |-> {<<"k", "v">>}]

NullCommand ==
    [null |-> TRUE, command_id |-> 0, command |-> "", args |-> NoArgs, kwargs |-> NoKwargs]

CommandIds == {1, 2}
CommandNames == {"", RUN, GET_RESOURCE, ENTER}

Commands ==
    {NullCommand} \cup
    { [null |-> FALSE, command_id |-> i, command |-> n, args |-> a.args, kwargs |-> a.kwargs] :
        i \in CommandIds, n \in CommandNames,
        a \in { [args |-> NoArgs, kwargs |-> NoKwargs],
                [args |-> SomeArgs, kwargs |-> SomeKwargs] } }

Params == "params"

----------------------------------------------------------------------------
(* Handlers.  A handler is a value stored in the transition table.  The    *)
(* base agent's per-state _handler_<state>_enter / _handler_<state>_exit   *)
(* methods all delegate to the two common helpers.                         *)

EnterHandler == [kind |-> "enter", next |-> None, result |-> None, raises |-> None]
ExitHandler  == [kind |-> "exit",  next |-> None, result |-> None, raises |-> None]

\* _common_state_exit writing the record of _common_state_enter.
_common_state_exit_entered(cur) == << [dir |-> "entered", state |-> cur] >>

\* The observability records written by the common helpers: each reads
\* the FSM's current state (cur is what get_current_state() returns at the
\* moment the helper runs) and logs it with the direction.
_common_state_enter(cur) == << [dir |-> "entered", state |-> cur] >>

_common_state_exit(cur) == << [dir |-> "leaving", state |-> cur] >>

\* Calling a handler while the cursor is cur: the next state its semantics
\* defines (None: none), the value it returns and the records it logs, or
\* the exception that leaves it (raised; None: it returned).
Invoke(h, cur) ==
    CASE h.kind = "enter" ->
            [next |-> None, result |-> None, raised |-> None,
             records |-> _common_state_enter(cur)]
      [] h.kind = "exit" ->
            [next |-> None, result |-> None, raised |-> None,
             records |-> _common_state_exit(cur)]
      [] h.raises # None ->
            [next |-> None, result |-> None, raised |-> h.raises, records |-> << >>]
      [] OTHER ->
            [next |-> h.next, result |-> h.result, raised |-> None, records |-> << >>]

----------------------------------------------------------------------------
(* The FSM engine (spec.md 4.1).                                           *)

\* add_handler keeping the handler a pair already has.
add_handler_first_wins(table, state, event, handler) ==
    [p \in DOMAIN table \cup {<<state, event>>} |->
        IF p \in DOMAIN table THEN table[p] ELSE handler]

\* add_handler: registers handler for exactly one pair, last write wins.
add_handler(table, state, event, handler) ==
    [p \in DOMAIN table \cup {<<state, event>>} |->
        IF p = <<state, event>> THEN handler ELSE table[p]]

\* get_current_state: the cursor, a pure read.
get_current_state(cur) == cur

\* get_events: the events with a registered handler, at the current state
\* only or over the whole table.
get_events(table, cur, current_state_only) ==
    IF current_state_only
    THEN {p[2] : p \in {q \in DOMAIN table : q[1] = cur}}
    ELSE {p[2] : p \in DOMAIN table}

\* The transition part of on_event and the hook part of start: EXIT hook
\* of the old state (if registered), cursor update, ENTER hook of the new
\* state (if registered).  steps lists what the engine did, each with the
\* cursor's value at that moment.
RunHook(table, state, event, step) ==
    IF <<state, event>> \in DOMAIN table
    THEN [records |-> Invoke(table[<<state, event>>], state).records,
          steps   |-> << [step |-> step, at |-> state] >>]
    ELSE [records |-> << >>, steps |-> << >>]

on_transition(table, cur, next) ==
    LET x == RunHook(table, cur, EXIT, "exit")
        e == RunHook(table, next, ENTER, "enter")
    IN  [state   |-> next,
         records |-> x.records \o e.records,
         steps   |-> x.steps \o << [step |-> "set", at |-> next] >> \o e.steps]

\* start: set the cursor, fire the ENTER hook of the initial state.
start(table, state) ==
    LET e == RunHook(table, state, ENTER, "enter")
    IN  [state   |-> state,
         records |-> e.records,
         steps   |-> << [step |-> "set", at |-> state] >> \o e.steps]

\* on_event running the EXIT and ENTER hooks of the current state around a
\* handler that defines no transition.
on_event_rehook(table, cur, event, args, kwargs) ==
    IF <<cur, event>> \notin DOMAIN table
    THEN [event |-> event, error |-> TRUE, errargs |-> <<cur, event>>,
          invoked |-> FALSE, hargs |-> << >>, hkwargs |-> {},
          next |-> None, result |-> None, raised |-> None,
          state |-> cur, records |-> << >>, steps |-> << >>]
    ELSE LET r == Invoke(table[<<cur, event>>], cur)
             h == << [step |-> "handler", at |-> cur] >>
             t == IF r.next \in ResourceAgentState
                  THEN on_transition(table, cur, r.next)
                  ELSE on_transition(table, cur, cur)
         IN  [event |-> event, error |-> FALSE, errargs |-> << >>,
              invoked |-> TRUE, hargs |-> args, hkwargs |-> kwargs,
              next |-> r.next, result |-> r.result, raised |-> r.raised,
              state |-> t.state, records |-> r.records \o t.records,
              steps |-> h \o t.steps]

\* on_event: look up (current state, event); absent: FSMStateError whose
\* message names the state and the event; present: call the handler with
\* the supplied arguments, perform the transition it defines, return its
\* result.  invoked/hargs/hkwargs say whether the handler was called and
\* with what.  An exception raised by the handler leaves on_event at the
\* handler call (raised): nothing is returned and no transition is made.
on_event(table, cur, event, args, kwargs) ==
    IF <<cur, event>> \notin DOMAIN table
    THEN [event |-> event, error |-> TRUE, errargs |-> <<cur, event>>,
          invoked |-> FALSE, hargs |-> << >>, hkwargs |-> {},
          next |-> None, result |-> None, raised |-> None,
          state |-> cur, records |-> << >>, steps |-> << >>]
    ELSE LET r == Invoke(table[<<cur, event>>], cur)
             h == << [step |-> "handler", at |-> cur] >>
             t == IF r.next \in ResourceAgentState
                  THEN on_transition(table, cur, r.next)
                  ELSE [state |-> cur, records |-> << >>, steps |-> << >>]
         IN  [event |-> event, error |-> FALSE, errargs |-> << >>,
              invoked |-> TRUE, hargs |-> args, hkwargs |-> kwargs,
              next |-> r.next, result |-> r.result, raised |-> r.raised,
              state |-> t.state, records |-> r.records \o t.records,
              steps |-> h \o t.steps]

----------------------------------------------------------------------------
(* ResourceAgent (agent.py).                                               *)

\* __init__ taking the keyword argument without the has() check.
ResourceAgent_init_unvalidated(arg) ==
    IF arg # None
    THEN [kwarg |-> arg, set |-> TRUE, value |-> arg]
    ELSE [kwarg |-> arg, set |-> TRUE, value |-> UNINITIALIZED]

\* __init__, lines 136-142: the initial state from the initial_state
\* keyword argument (arg = None: the keyword is absent).
ResourceAgent_init(arg) ==
    IF arg # None
    THEN IF has(ResourceAgentState, arg)
         THEN [kwarg |-> arg, set |-> TRUE, value |-> arg]
         ELSE [kwarg |-> arg, set |-> FALSE, value |-> None]
    ELSE [kwarg |-> arg, set |-> TRUE, value |-> UNINITIALIZED]

\* _construct_fsm without the ENTER registration of COMMAND.
_construct_fsm_no_command_enter ==
    [p \in (ResourceAgentState \X {ENTER, EXIT}) \ {<<COMMAND, ENTER>>} |->
        IF p[2] = ENTER THEN EnterHandler ELSE ExitHandler]

\* _construct_fsm without the EXIT registration of IDLE.
_construct_fsm_no_idle_exit ==
    [p \in (ResourceAgentState \X {ENTER, EXIT}) \ {<<IDLE, EXIT>>} |->
        IF p[2] = ENTER THEN EnterHandler ELSE ExitHandler]

\* _construct_fsm without the two registrations of BUSY.
_construct_fsm_no_busy ==
    [p \in (ResourceAgentState \ {BUSY}) \X {ENTER, EXIT} |->
        IF p[2] = ENTER THEN EnterHandler ELSE ExitHandler]

\* _construct_fsm, lines 502-544: an ENTER and an EXIT handler for each
\* state it names.
_construct_fsm ==
    [p \in ResourceAgentState \X {ENTER, EXIT} |->
        IF p[2] = ENTER THEN EnterHandler ELSE ExitHandler]

\* What a call on the agent did and returned: the operation and its input,
\* the cursor before (pre) and after (post), the outcome ("ok" or the
\* exception raised, with its args), the value returned, how many times
\* on_event was called and what that dispatch did.
NoDispatch(cur) ==
    [event |-> None, error |-> FALSE, errargs |-> << >>,
     invoked |-> FALSE, hargs |-> << >>, hkwargs |-> {},
     next |-> None, result |-> None, raised |-> None,
     state |-> cur, records |-> << >>, steps |-> << >>]

NoReturn ==
    [kind |-> "None", command_id |-> 0, command |-> "", status |-> 0,
     result |-> None, agent_caps |-> {}]

Call(op, command, flag, cur, outcome, errargs, ret, fsm_calls, f) ==
    [op |-> op, command |-> command, flag |-> flag, pre |-> cur,
     outcome |-> outcome, errargs |-> errargs, ret |-> ret,
     fsm_calls |-> fsm_calls, event |-> f.event,
     fsm_error |-> f.error, fsm_errargs |-> f.errargs, invoked |-> f.invoked,
     hargs |-> f.hargs, hkwargs |-> f.hkwargs, next |-> f.next,
     hresult |-> f.result, raised |-> f.raised,
     records |-> f.records, steps |-> f.steps, post |-> f.state]

\* An exception that is not FSMStateError matches no except clause of the
\* operation: it leaves the operation as it left on_event.
Propagated(op, command, flag, cur, f) ==
    Call(op, command, flag, cur, f.raised, << >>, NoReturn, 1, f)

NoCall ==
    Call("__init__", NullCommand, FALSE, None, "ok", << >>, NoReturn, 0, NoDispatch(None))

\* AgentCommandResult as execute_agent / execute_resource fill it.
CommandResult(command_id, command, status, result) ==
    [kind |-> "CommandResult", command_id |-> command_id, command |-> command,
     status |-> status, result |-> result, agent_caps |-> {}]

Value(v) ==
    [kind |-> "value", command_id |-> 0, command |-> "", status |-> 0,
     result |-> v, agent_caps |-> {}]

MsgCommandNotSet == "Execute argument command not set."
MsgNameNotSet == "Command name not set."

\* "x or []" / "x or {}": the value unless it is None or empty.
OrEmptyList(a) == IF a.null THEN << >> ELSE a.items
OrEmptyDict(k) == IF k.null THEN {} ELSE k.items

\* _on_init starting the FSM in the default state whatever was selected.
_on_init_default(table, init) ==
    LET s == start(table, UNINITIALIZED)
    IN  Call("_on_init", NullCommand, FALSE, None, "ok", << >>, NoReturn, 0,
             [NoDispatch(None) EXCEPT !.state = s.state,
                                      !.records = s.records,
                                      !.steps = s.steps])

\* _on_init, lines 147-158: start the FSM with self._initial_state.
_on_init(table, init) ==
    IF ~init.set
    THEN Call("_on_init", NullCommand, FALSE, None, "AttributeError",
              <<"_initial_state">>, NoReturn, 0, NoDispatch(None))
    ELSE LET s == start(table, init.value)
         IN  Call("_on_init", NullCommand, FALSE, None, "ok", << >>, NoReturn, 0,
                  [NoDispatch(None) EXCEPT !.state = s.state,
                                           !.records = s.records,
                                           !.steps = s.steps])

\* get_agent_state answered by dispatching an event to the FSM.
get_agent_state_via_event(table, cur) ==
    LET f == on_event(table, cur, RUN, << >>, {})
    IN  IF f.error
        THEN Call("get_agent_state", NullCommand, FALSE, cur, "Conflict",
                  f.errargs, NoReturn, 1, f)
        ELSE Call("get_agent_state", NullCommand, FALSE, cur, "ok", << >>,
                  Value(get_current_state(f.state)), 1, f)

\* get_agent_state, lines 228-232.
get_agent_state(table, cur) ==
    Call("get_agent_state", NullCommand, FALSE, cur, "ok", << >>,
         Value(get_current_state(cur)), 0, NoDispatch(cur))

\* execute_agent leaving the handler's value out of the result.
execute_agent_no_result(table, cur, command) ==
    IF command.null
    THEN Call("execute_agent", command, FALSE, cur, "BadRequest",
              <<MsgCommandNotSet>>, NoReturn, 0, NoDispatch(cur))
    ELSE IF command.command = ""
    THEN Call("execute_agent", command, FALSE, cur, "BadRequest",
              <<MsgNameNotSet>>, NoReturn, 0, NoDispatch(cur))
    ELSE LET f == on_event(table, cur, command.command,
                           OrEmptyList(command.args), OrEmptyDict(command.kwargs))
         IN  IF f.error
             THEN Call("execute_agent", command, FALSE, cur, "Conflict",
                       f.errargs, NoReturn, 1, f)
             ELSE Call("execute_agent", command, FALSE, cur, "ok", << >>,
                       CommandResult(command.command_id, command.command, 0, None),
                       1, f)

\* execute_agent reporting the FSM's refusal in the result's status
\* instead of raising Conflict.
execute_agent_status_on_conflict(table, cur, command) ==
    IF command.null
    THEN Call("execute_agent", command, FALSE, cur, "BadRequest",
              <<MsgCommandNotSet>>, NoReturn, 0, NoDispatch(cur))
    ELSE IF command.command = ""
    THEN Call("execute_agent", command, FALSE, cur, "BadRequest",
              <<MsgNameNotSet>>, NoReturn, 0, NoDispatch(cur))
    ELSE LET f == on_event(table, cur, command.command,
                           OrEmptyList(command.args), OrEmptyDict(command.kwargs))
         IN  Call("execute_agent", command, FALSE, cur, "ok", << >>,
                  CommandResult(command.command_id, command.command,
                                IF f.error THEN 1 ELSE 0, f.result),
                  1, f)

\* execute_agent, lines 234-263.
execute_agent(table, cur, command) ==
    IF command.null
    THEN Call("execute_agent", command, FALSE, cur, "BadRequest",
              <<MsgCommandNotSet>>, NoReturn, 0, NoDispatch(cur))
    ELSE IF command.command = ""
    THEN Call("execute_agent", command, FALSE, cur, "BadRequest",
              <<MsgNameNotSet>>, NoReturn, 0, NoDispatch(cur))
    ELSE LET cmd == command.command
             args == OrEmptyList(command.args)
             kwargs == OrEmptyDict(command.kwargs)
             f == on_event(table, cur, cmd, args, kwargs)
         IN  IF f.raised # None
             THEN Propagated("execute_agent", command, FALSE, cur, f)
             ELSE IF f.error
             THEN Call("execute_agent", command, FALSE, cur, "Conflict",
                       f.errargs, NoReturn, 1, f)
             ELSE Call("execute_agent", command, FALSE, cur, "ok", << >>,
                       CommandResult(command.command_id, command.command, 0, f.result),
                       1, f)

\* get_resource handing the handler's value to the caller.
get_resource_returning(table, cur, params) ==
    LET f == on_event(table, cur, GET_RESOURCE, <<params>>, {})
    IN  IF f.raised # None
        THEN Propagated("get_resource", NullCommand, FALSE, cur, f)
        ELSE IF f.error
        THEN Call("get_resource", NullCommand, FALSE, cur, "Conflict",
                  f.errargs, NoReturn, 1, f)
        ELSE Call("get_resource", NullCommand, FALSE, cur, "ok", << >>,
                  Value(f.result), 1, f)

\* get_resource, lines 269-277: the handler's value is dropped.
get_resource(table, cur, params) ==
    LET f == on_event(table, cur, GET_RESOURCE, <<params>>, {})
    IN  IF f.raised # None
        THEN Propagated("get_resource", NullCommand, FALSE, cur, f)
        ELSE IF f.error
        THEN Call("get_resource", NullCommand, FALSE, cur, "Conflict",
                  f.errargs, NoReturn, 1, f)
        ELSE Call("get_resource", NullCommand, FALSE, cur, "ok", << >>,
                  NoReturn, 1, f)

\* set_resource raising Conflict without the FSM error's args.
set_resource_bare_conflict(table, cur, params) ==
    LET f == on_event(table, cur, SET_RESOURCE, <<params>>, {})
    IN  IF f.error
        THEN Call("set_resource", NullCommand, FALSE, cur, "Conflict",
                  << >>, NoReturn, 1, f)
        ELSE Call("set_resource", NullCommand, FALSE, cur, "ok", << >>,
                  Value(f.result), 1, f)

\* set_resource, lines 279-287.
set_resource(table, cur, params) ==
    LET f == on_event(table, cur, SET_RESOURCE, <<params>>, {})
    IN  IF f.raised # None
        THEN Propagated("set_resource", NullCommand, FALSE, cur, f)
        ELSE IF f.error
        THEN Call("set_resource", NullCommand, FALSE, cur, "Conflict",
                  f.errargs, NoReturn, 1, f)
        ELSE Call("set_resource", NullCommand, FALSE, cur, "ok", << >>,
                  Value(f.result), 1, f)

\* get_resource_state swallowing the FSM's rejection.
get_resource_state_swallow(table, cur) ==
    LET f == on_event(table, cur, GET_RESOURCE_STATE, << >>, {})
    IN  Call("get_resource_state", NullCommand, FALSE, cur, "ok", << >>,
             Value(f.result), 1, f)

\* get_resource_state translating the FSM's rejection like its siblings.
get_resource_state_conflict(table, cur) ==
    LET f == on_event(table, cur, GET_RESOURCE_STATE, << >>, {})
    IN  IF f.error
        THEN Call("get_resource_state", NullCommand, FALSE, cur, "Conflict",
                  f.errargs, NoReturn, 1, f)
        ELSE Call("get_resource_state", NullCommand, FALSE, cur, "ok", << >>,
                  Value(f.result), 1, f)

\* get_resource_state, lines 289-292: no except clause.
get_resource_state(table, cur) ==
    LET f == on_event(table, cur, GET_RESOURCE_STATE, << >>, {})
    IN  IF f.raised # None
        THEN Propagated("get_resource_state", NullCommand, FALSE, cur, f)
        ELSE IF f.error
        THEN Call("get_resource_state", NullCommand, FALSE, cur, "FSMStateError",
                  f.errargs, NoReturn, 1, f)
        ELSE Call("get_resource_state", NullCommand, FALSE, cur, "ok", << >>,
                  Value(f.result), 1, f)

\* execute_resource without the check of the command name.
execute_resource_no_name_check(table, cur, command) ==
    IF command.null
    THEN Call("execute_resource", command, FALSE, cur, "BadRequest",
              <<MsgCommandNotSet>>, NoReturn, 0, NoDispatch(cur))
    ELSE IF command.args.null \/ command.kwargs.null
    THEN Call("execute_resource", command, FALSE, cur, "TypeError",
              << >>, NoReturn, 0, NoDispatch(cur))
    ELSE LET f == on_event(table, cur, EXECUTE_RESOURCE,
                           <<command.command>> \o command.args.items,
                           command.kwargs.items)
         IN  IF f.error
             THEN Call("execute_resource", command, FALSE, cur, "Conflict",
                       f.errargs, NoReturn, 1, f)
             ELSE Call("execute_resource", command, FALSE, cur, "ok", << >>,
                       CommandResult(command.command_id, command.command, 0, f.result),
                       1, f)

\* execute_resource, lines 294-320.  command.args and command.kwargs are
\* unpacked as they are: "*None" / "**None" is a TypeError raised while
\* the call's arguments are built, before on_event runs.
execute_resource(table, cur, command) ==
    IF command.null
    THEN Call("execute_resource", command, FALSE, cur, "BadRequest",
              <<MsgCommandNotSet>>, NoReturn, 0, NoDispatch(cur))
    ELSE IF command.command = ""
    THEN Call("execute_resource", command, FALSE, cur, "BadRequest",
              <<MsgNameNotSet>>, NoReturn, 0, NoDispatch(cur))
    ELSE IF command.args.null \/ command.kwargs.null
    THEN Call("execute_resource", command, FALSE, cur, "TypeError",
              << >>, NoReturn, 0, NoDispatch(cur))
    ELSE LET cmd_name == command.command
             f == on_event(table, cur, EXECUTE_RESOURCE,
                           <<cmd_name>> \o command.args.items, command.kwargs.items)
         IN  IF f.raised # None
             THEN Propagated("execute_resource", command, FALSE, cur, f)
             ELSE IF f.error
             THEN Call("execute_resource", command, FALSE, cur, "Conflict",
                       f.errargs, NoReturn, 1, f)
             ELSE Call("execute_resource", command, FALSE, cur, "ok", << >>,
                       CommandResult(command.command_id, cmd_name, 0, f.result),
                       1, f)

\* get_capabilities, lines 180-212: one AGT_CMD capability per event of
\* get_events, then what the GET_RESOURCE_CAPABILITIES handler returns, or
\* the empty list when the FSM rejects that event.
EmptyList == "[]"

FlagStr(b) == IF b THEN "True" ELSE "False"

\* get_capabilities raising Conflict when the FSM rejects the event.
get_capabilities_conflict(table, cur, flag) ==
    LET agent_caps == {[name |-> e, cap_type |-> "AGT_CMD"] : e \in get_events(table, cur, flag)}
        f == on_event(table, cur, GET_RESOURCE_CAPABILITIES, << >>,
                      {<<"current_state", FlagStr(flag)>>})
    IN  IF f.error
        THEN Call("get_capabilities", NullCommand, flag, cur, "Conflict",
                  f.errargs, NoReturn, 1, f)
        ELSE Call("get_capabilities", NullCommand, flag, cur, "ok", << >>,
                  [kind |-> "caps", command_id |-> 0, command |-> "", status |-> 0,
                   result |-> f.result, agent_caps |-> agent_caps],
                  1, f)

\* get_capabilities asking get_events for the current state's events
\* whatever the caller's current_state argument.
get_capabilities_current_only(table, cur, flag) ==
    LET agent_caps == {[name |-> e, cap_type |-> "AGT_CMD"] : e \in get_events(table, cur, TRUE)}
        f == on_event(table, cur, GET_RESOURCE_CAPABILITIES, << >>,
                      {<<"current_state", FlagStr(flag)>>})
        resource_caps == IF f.error THEN EmptyList ELSE f.result
    IN  Call("get_capabilities", NullCommand, flag, cur, "ok", << >>,
             [kind |-> "caps", command_id |-> 0, command |-> "", status |-> 0,
              result |-> resource_caps, agent_caps |-> agent_caps],
             1, f)

\* get_capabilities with a bare except clause: whatever on_event raises
\* becomes the empty list.
get_capabilities_catch_all(table, cur, flag) ==
    LET agent_caps == {[name |-> e, cap_type |-> "AGT_CMD"] : e \in get_events(table, cur, flag)}
        f == on_event(table, cur, GET_RESOURCE_CAPABILITIES, << >>,
                      {<<"current_state", FlagStr(flag)>>})
        resource_caps == IF f.error \/ f.raised # None THEN EmptyList ELSE f.result
    IN  Call("get_capabilities", NullCommand, flag, cur, "ok", << >>,
             [kind |-> "caps", command_id |-> 0, command |-> "", status |-> 0,
              result |-> resource_caps, agent_caps |-> agent_caps],
             1, f)

\* get_capabilities, lines 180-212.
get_capabilities(table, cur, flag) ==
    LET agent_caps == {[name |-> e, cap_type |-> "AGT_CMD"] : e \in get_events(table, cur, flag)}
        f == on_event(table, cur, GET_RESOURCE_CAPABILITIES, << >>,
                      {<<"current_state", FlagStr(flag)>>})
        resource_caps == IF f.error THEN EmptyList ELSE f.result
    IN  IF f.raised # None
        THEN Propagated("get_capabilities", NullCommand, flag, cur, f)
        ELSE Call("get_capabilities", NullCommand, flag, cur, "ok", << >>,
                  [kind |-> "caps", command_id |-> 0, command |-> "", status |-> 0,
                   result |-> resource_caps, agent_caps |-> agent_caps],
                  1, f)

----------------------------------------------------------------------------
(* The state machine.                                                      *)

\* No pair has been registered twice.
NoOverwrites == [p \in {} |-> [old |-> EnterHandler, new |-> EnterHandler]]

\* The history of overwrites after handler h is registered for pair p.
Overwritten(table, history, p, h) ==
    IF p \in DOMAIN table
    THEN [q \in DOMAIN history \cup {p} |->
            IF q = p THEN [old |-> table[p], new |-> h] ELSE history[q]]
    ELSE history

\* Two agents constructed in one process.
Agents == {"a1", "a2"}

\* _construct_fsm storing the FSM in an attribute of the class: every
\* instance refers to the one FSM object.
NewFsm_shared(agent) == "fsm"

\* _construct_fsm, lines 510-511: "self._fsm = InstrumentFSM(...)" makes a
\* new FSM object on each call and stores it in an attribute of the
\* instance.  The object is named after the instance that made it.
NewFsm(agent) == <<"fsm", agent>>

\* The process after both constructors ran: agent -> its FSM object, FSM
\* object -> its table and cursor, and per agent the selected initial
\* state, the phase and the number of registrations made.  actor, op and
\* outcome tell the last call made and the agent it was made on.
TwoAgents ==
    [fsm_of  |-> [a \in Agents |-> NewFsm(a)],
     heap    |-> [o \in {NewFsm(a) : a \in Agents} |->
                    [table |-> _construct_fsm, cur |-> None]],
     init    |-> [a \in Agents |-> ResourceAgent_init(IDLE)],
     phase   |-> [a \in Agents |-> "constructed"],
     nreg    |-> [a \in Agents |-> 0],
     actor   |-> None, op |-> "__init__", outcome |-> "ok"]

\* The callers of one agent, and the requests a caller may send.
Callers == {"t1", "t2"}

RunCommand ==
    [null |-> FALSE, command_id |-> 1, command |-> RUN, args |-> NoArgs, kwargs |-> NoKwargs]

UnnamedCommand ==
    [null |-> FALSE, command_id |-> 2, command |-> "", args |-> NoArgs, kwargs |-> NoKwargs]

Requests ==
    { [op |-> "execute_agent", command |-> RunCommand],
      [op |-> "execute_agent", command |-> UnnamedCommand],
      [op |-> "set_resource", command |-> NullCommand],
      [op |-> "get_resource_state", command |-> NullCommand] }

NoRequest == [op |-> "None", command |-> NullCommand]

\* What the caller of a call gets back.
Outcome(c) == [outcome |-> c.outcome, errargs |-> c.errargs, ret |-> c.ret]

\* No caller has sent anything.  Per caller: the request, where its call
\* stands (pc), the call as decided when on_event looked up and ran the
\* handler, and what it got back; start is the cursor before the first
\* request, trace the engine steps of all callers in the order they ran.
NoCallers ==
    [req   |-> [t \in Callers |-> NoRequest],
     pc    |-> [t \in Callers |-> "idle"],
     call  |-> [t \in Callers |-> NoCall],
     out   |-> [t \in Callers |-> Outcome(NoCall)],
     start |-> None,
     trace |-> << >>]

\* After __init__: the initial state chosen from the keyword argument, the
\* default table built, the FSM not started.
Init ==
    /\ \E arg \in InitialStateArgs : initial_state = ResourceAgent_init(arg)
    /\ state_handlers = _construct_fsm
    /\ current_state = None
    /\ phase = "constructed"
    /\ nreg = 0
    /\ overwrites = NoOverwrites
    /\ last = NoCall
    /\ world = None
    /\ log = None
    /\ client = None
    /\ launcher = None
    /\ store = None
    /\ streams = None
    /\ conc = None

\* The specializing layer's _construct_fsm override registers a handler.
RegisterHandler ==
    /\ phase = "constructed"
    /\ nreg < MaxHandlers
    /\ \E s \in HandlerStates, e \in HandlerEvents, h \in UserHandlers :
          state_handlers' = add_handler(state_handlers, s, e, h)
    /\ nreg' = nreg + 1
    /\ UNCHANGED <<initial_state, current_state, phase, overwrites, last, world, conc, aside>>

OnInit ==
    /\ phase = "constructed"
    /\ LET c == _on_init(state_handlers, initial_state)
       IN  /\ last' = c
           /\ current_state' = c.post
           /\ phase' = IF c.outcome = "ok" THEN "started" ELSE "failed"
    /\ UNCHANGED <<initial_state, state_handlers, nreg, overwrites, world, conc, aside>>

\* A call on the started agent: the caller gets c, the cursor is where the
\* call left it.
Do(c) ==
    /\ phase = "started"
    /\ last' = c
    /\ current_state' = c.post
    /\ UNCHANGED <<initial_state, state_handlers, phase, nreg, overwrites, world, conc, aside>>

GetCapabilities ==
    \E flag \in BOOLEAN : Do(get_capabilities(state_handlers, current_state, flag))

GetAgentState == Do(get_agent_state(state_handlers, current_state))

ExecuteAgent ==
    \E command \in Commands : Do(execute_agent(state_handlers, current_state, command))

GetResource == Do(get_resource(state_handlers, current_state, Params))

SetResource == Do(set_resource(state_handlers, current_state, Params))

GetResourceState == Do(get_resource_state(state_handlers, current_state))

ExecuteResource ==
    \E command \in Commands : Do(execute_resource(state_handlers, current_state, command))

Next ==
    \/ RegisterHandler
    \/ OnInit
    \/ GetCapabilities
    \/ GetAgentState
    \/ ExecuteAgent
    \/ GetResource
    \/ SetResource
    \/ GetResourceState
    \/ ExecuteResource

Spec == Init /\ [][Next]_vars

\* Construction and start-up alone, from every value of initial_state.
InitAll ==
    /\ \E arg \in AllInitialStateArgs : initial_state = ResourceAgent_init(arg)
    /\ state_handlers = _construct_fsm
    /\ current_state = None
    /\ phase = "constructed"
    /\ nreg = 0
    /\ overwrites = NoOverwrites
    /\ last = NoCall
    /\ world = None
    /\ log = None
    /\ client = None
    /\ launcher = None
    /\ store = None
    /\ streams = None
    /\ conc = None

NextStart ==
    \/ RegisterHandler
    \/ OnInit

SpecStart == InitAll /\ [][NextStart]_vars

\* An agent whose specializing layer registers defective handlers, started
\* in either of the states they are registered for.
InitFault ==
    /\ \E arg \in HandlerStates : initial_state = ResourceAgent_init(arg)
    /\ state_handlers = _construct_fsm
    /\ current_state = None
    /\ phase = "constructed"
    /\ nreg = 0
    /\ overwrites = NoOverwrites
    /\ last = NoCall
    /\ world = None
    /\ log = None
    /\ client = None
    /\ launcher = None
    /\ store = None
    /\ streams = None
    /\ conc = None

RegisterFailingHandler ==
    /\ phase = "constructed"
    /\ nreg < MaxHandlers
    /\ \E s \in HandlerStates, e \in HandlerEvents, h \in FailingHandlers :
          state_handlers' = add_handler(state_handlers, s, e, h)
    /\ nreg' = nreg + 1
    /\ UNCHANGED <<initial_state, current_state, phase, overwrites, last, world, conc, aside>>

NextFault ==
    \/ RegisterFailingHandler
    \/ OnInit
    \/ GetCapabilities
    \/ GetAgentState
    \/ ExecuteAgent
    \/ GetResource
    \/ SetResource
    \/ GetResourceState
    \/ ExecuteResource

SpecFault == InitFault /\ [][NextFault]_vars

\* An agent whose specializing layer registers handlers for RUN and
\* SET_RESOURCE, possibly more than one for a pair; the overwrites are
\* recorded.
TrackedEvents == {RUN, SET_RESOURCE}

RegisterTracked ==
    /\ phase = "constructed"
    /\ nreg < MaxHandlers
    /\ \E s \in HandlerStates, e \in TrackedEvents, h \in UserHandlers :
          /\ state_handlers' = add_handler(state_handlers, s, e, h)
          /\ overwrites' = Overwritten(state_handlers, overwrites, <<s, e>>, h)
    /\ nreg' = nreg + 1
    /\ UNCHANGED <<initial_state, current_state, phase, last, world, conc, aside>>

NextTracked ==
    \/ RegisterTracked
    \/ OnInit
    \/ GetCapabilities
    \/ GetAgentState
    \/ ExecuteAgent
    \/ GetResource
    \/ SetResource
    \/ GetResourceState
    \/ ExecuteResource

SpecTracked == InitFault /\ [][NextTracked]_vars

----------------------------------------------------------------------------
(* Two agents.  Each operation is the single agent's operation applied to  *)
(* the FSM object the agent's _fsm attribute refers to.                    *)

Fsm(a) == world.heap[world.fsm_of[a]]

\* The two agents as constructed; the single agent of the other
\* specifications is left as constructed.
InitTwo ==
    /\ initial_state = ResourceAgent_init(IDLE)
    /\ state_handlers = _construct_fsm
    /\ current_state = None
    /\ phase = "constructed"
    /\ nreg = 0
    /\ overwrites = NoOverwrites
    /\ last = NoCall
    /\ world = TwoAgents
    /\ log = None
    /\ client = None
    /\ launcher = None
    /\ store = None
    /\ streams = None
    /\ conc = None

TwoHandlerStates == {IDLE}
TwoHandlerEvents == {RUN, GET_RESOURCE_STATE}
TwoCommands == {c \in Commands : c.null \/ (c.command_id = 1 /\ c.command \in {"", RUN})}

TwoRegisterHandler ==
    \E a \in Agents :
        /\ world.phase[a] = "constructed"
        /\ world.nreg[a] < MaxHandlers
        /\ \E s \in TwoHandlerStates, e \in TwoHandlerEvents, h \in UserHandlers :
              world' = [world EXCEPT
                          !.heap[world.fsm_of[a]].table = add_handler(Fsm(a).table, s, e, h),
                          !.nreg[a] = @ + 1,
                          !.actor = a, !.op = "add_handler", !.outcome = "ok"]
        /\ UNCHANGED <<initial_state, state_handlers, current_state, phase, nreg,
                       overwrites, last, conc, aside>>

TwoOnInit ==
    \E a \in Agents :
        /\ world.phase[a] = "constructed"
        /\ LET c == _on_init(Fsm(a).table, world.init[a])
           IN  world' = [world EXCEPT
                           !.heap[world.fsm_of[a]].cur = c.post,
                           !.phase[a] = IF c.outcome = "ok" THEN "started" ELSE "failed",
                           !.actor = a, !.op = c.op, !.outcome = c.outcome]
        /\ UNCHANGED <<initial_state, state_handlers, current_state, phase, nreg,
                       overwrites, last, conc, aside>>

\* Call c made on the started agent a.
TwoDo(a, c) ==
    /\ world.phase[a] = "started"
    /\ world' = [world EXCEPT
                    !.heap[world.fsm_of[a]].cur = c.post,
                    !.actor = a, !.op = c.op, !.outcome = c.outcome]
    /\ UNCHANGED <<initial_state, state_handlers, current_state, phase, nreg,
                   overwrites, last, conc, aside>>

TwoGetCapabilities ==
    \E a \in Agents, flag \in BOOLEAN :
        TwoDo(a, get_capabilities(Fsm(a).table, Fsm(a).cur, flag))

TwoGetAgentState ==
    \E a \in Agents : TwoDo(a, get_agent_state(Fsm(a).table, Fsm(a).cur))

TwoExecuteAgent ==
    \E a \in Agents, command \in TwoCommands :
        TwoDo(a, execute_agent(Fsm(a).table, Fsm(a).cur, command))

TwoGetResource ==
    \E a \in Agents : TwoDo(a, get_resource(Fsm(a).table, Fsm(a).cur, Params))

TwoSetResource ==
    \E a \in Agents : TwoDo(a, set_resource(Fsm(a).table, Fsm(a).cur, Params))

TwoGetResourceState ==
    \E a \in Agents : TwoDo(a, get_resource_state(Fsm(a).table, Fsm(a).cur))

TwoExecuteResource ==
    \E a \in Agents, command \in TwoCommands :
        TwoDo(a, execute_resource(Fsm(a).table, Fsm(a).cur, command))

NextTwo ==
    \/ TwoRegisterHandler
    \/ TwoOnInit
    \/ TwoGetCapabilities
    \/ TwoGetAgentState
    \/ TwoExecuteAgent
    \/ TwoGetResource
    \/ TwoSetResource
    \/ TwoGetResourceState
    \/ TwoExecuteResource

SpecTwo == InitTwo /\ [][NextTwo]_vars

----------------------------------------------------------------------------
(* Callers sending commands to one agent at the same time.  An operation   *)
(* is no longer one step: on_event's handler call, EXIT hook, cursor       *)
(* update and ENTER hook are steps of their own, each reading the cursor   *)
(* as it is when the step runs, and steps of different callers interleave. *)

\* The agent started at IDLE after two registrations of the layer above.
InitConc ==
    \E h1 \in UserHandlers, s \in HandlerStates,
       e \in {RUN, SET_RESOURCE, GET_RESOURCE_STATE}, h2 \in UserHandlers :
        LET t1 == add_handler(_construct_fsm, IDLE, RUN, h1)
            t2 == add_handler(t1, s, e, h2)
            c  == _on_init(t2, ResourceAgent_init(IDLE))
        IN  /\ initial_state = ResourceAgent_init(IDLE)
            /\ state_handlers = t2
            /\ current_state = c.post
            /\ phase = "started"
            /\ nreg = 2
            /\ overwrites = NoOverwrites
            /\ last = c
            /\ world = None
            /\ log = None
            /\ client = None
            /\ launcher = None
            /\ store = None
            /\ streams = None
            /\ conc = [NoCallers EXCEPT !.start = c.post]

\* The operation a request names, as one call.
Serve(req, table, cur) ==
    CASE req.op = "execute_agent" -> execute_agent(table, cur, req.command)
      [] req.op = "set_resource" -> set_resource(table, cur, Params)
      [] req.op = "get_resource_state" -> get_resource_state(table, cur)

\* Engine steps marked with the caller whose dispatch ran them.
Tag(t, steps) ==
    [i \in 1..Len(steps) |-> [caller |-> t, step |-> steps[i].step, at |-> steps[i].at]]

\* Where a call stands while its on_event has run the handler and has a
\* transition to make.
OnEventPcs == {"exit", "set", "enter"}

\* No guard on entering on_event.
SingleDispatch_unguarded(pc) == TRUE

\* The single-dispatch assumption: no on_event call of the agent is in
\* flight.
SingleDispatch(pc) == \A u \in Callers : pc[u] \notin OnEventPcs

ConcSubmit ==
    /\ \E t \in Callers, r \in Requests :
          /\ conc.pc[t] = "idle"
          /\ conc' = [conc EXCEPT !.req[t] = r, !.pc[t] = "submitted"]
    /\ UNCHANGED <<initial_state, state_handlers, current_state, phase, nreg,
                   overwrites, last, world, aside>>

\* The operation runs up to and including on_event's lookup and handler
\* call; an operation that raises before on_event calls nothing.
ConcDispatch ==
    /\ \E t \in Callers :
          /\ conc.pc[t] = "submitted"
          /\ LET c == Serve(conc.req[t], state_handlers, current_state)
             IN  /\ c.fsm_calls = 0 \/ SingleDispatch(conc.pc)
                 /\ conc' =
                      [conc EXCEPT
                         !.call[t] = c,
                         !.pc[t] = IF c.invoked /\ c.raised = None
                                      /\ c.next \in ResourceAgentState
                                   THEN "exit" ELSE "returning",
                         !.trace = @ \o (IF c.invoked
                                         THEN Tag(t, << [step |-> "handler",
                                                         at |-> current_state] >>)
                                         ELSE << >>)]
    /\ UNCHANGED <<initial_state, state_handlers, current_state, phase, nreg,
                   overwrites, last, world, aside>>

ConcExitHook ==
    /\ \E t \in Callers :
          /\ conc.pc[t] = "exit"
          /\ conc' = [conc EXCEPT
                        !.pc[t] = "set",
                        !.trace = @ \o Tag(t, RunHook(state_handlers, current_state,
                                                      EXIT, "exit").steps)]
    /\ UNCHANGED <<initial_state, state_handlers, current_state, phase, nreg,
                   overwrites, last, world, aside>>

ConcSetState ==
    /\ \E t \in Callers :
          /\ conc.pc[t] = "set"
          /\ current_state' = conc.call[t].next
          /\ conc' = [conc EXCEPT
                        !.pc[t] = "enter",
                        !.trace = @ \o Tag(t, << [step |-> "set",
                                                  at |-> conc.call[t].next] >>)]
    /\ UNCHANGED <<initial_state, state_handlers, phase, nreg, overwrites, last, world, aside>>

ConcEnterHook ==
    /\ \E t \in Callers :
          /\ conc.pc[t] = "enter"
          /\ conc' = [conc EXCEPT
                        !.pc[t] = "returning",
                        !.trace = @ \o Tag(t, RunHook(state_handlers, current_state,
                                                      ENTER, "enter").steps)]
    /\ UNCHANGED <<initial_state, state_handlers, current_state, phase, nreg,
                   overwrites, last, world, aside>>

\* on_event has returned or raised: the operation hands the caller the
\* result or the exception.
ConcReturn ==
    /\ \E t \in Callers :
          /\ conc.pc[t] = "returning"
          /\ conc' = [conc EXCEPT !.pc[t] = "done", !.out[t] = Outcome(conc.call[t])]
    /\ UNCHANGED <<initial_state, state_handlers, current_state, phase, nreg,
                   overwrites, last, world, aside>>

NextConc ==
    \/ ConcSubmit
    \/ ConcDispatch
    \/ ConcExitHook
    \/ ConcSetState
    \/ ConcEnterHook
    \/ ConcReturn

SpecConc == InitConc /\ [][NextConc]_vars

----------------------------------------------------------------------------
(* The agent's observability records over its whole life.                  *)

\* The longest sequence of records followed.
MaxLog == 5

LogCommands == {c \in Commands : c.null \/ (c.command_id = 1 /\ ~c.args.null)}

InitLog ==
    /\ \E arg \in {None, IDLE} : initial_state = ResourceAgent_init(arg)
    /\ state_handlers = _construct_fsm
    /\ current_state = None
    /\ phase = "constructed"
    /\ nreg = 0
    /\ overwrites = NoOverwrites
    /\ last = NoCall
    /\ world = None
    /\ conc = None
    /\ log = << >>
    /\ client = None
    /\ launcher = None
    /\ store = None
    /\ streams = None

LogRegisterHandler ==
    /\ phase = "constructed"
    /\ nreg < MaxHandlers
    /\ \E s \in HandlerStates, e \in TrackedEvents, h \in UserHandlers :
          state_handlers' = add_handler(state_handlers, s, e, h)
    /\ nreg' = nreg + 1
    /\ UNCHANGED <<initial_state, current_state, phase, overwrites, last, world, conc,
                   aside>>

\* _on_init: the records of start are the first the agent writes.
LogOnInit ==
    /\ phase = "constructed"
    /\ LET c == _on_init(state_handlers, initial_state)
       IN  /\ last' = c
           /\ current_state' = c.post
           /\ phase' = IF c.outcome = "ok" THEN "started" ELSE "failed"
           /\ log' = log \o c.records
    /\ UNCHANGED <<initial_state, state_handlers, nreg, overwrites, world, conc,
                   client, launcher, store, streams>>

\* A call on the started agent; what its handlers and hooks logged is
\* appended to the agent's log.
LogDo(c) ==
    /\ phase = "started"
    /\ Len(log) + Len(c.records) <= MaxLog
    /\ last' = c
    /\ current_state' = c.post
    /\ log' = log \o c.records
    /\ UNCHANGED <<initial_state, state_handlers, phase, nreg, overwrites, world, conc,
                   client, launcher, store, streams>>

LogGetCapabilities ==
    \E flag \in BOOLEAN : LogDo(get_capabilities(state_handlers, current_state, flag))

LogGetAgentState == LogDo(get_agent_state(state_handlers, current_state))

LogExecuteAgent ==
    \E command \in LogCommands : LogDo(execute_agent(state_handlers, current_state, command))

LogGetResource == LogDo(get_resource(state_handlers, current_state, Params))

LogSetResource == LogDo(set_resource(state_handlers, current_state, Params))

LogGetResourceState == LogDo(get_resource_state(state_handlers, current_state))

LogExecuteResource ==
    \E command \in LogCommands :
        LogDo(execute_resource(state_handlers, current_state, command))

NextLog ==
    \/ LogRegisterHandler
    \/ LogOnInit
    \/ LogGetCapabilities
    \/ LogGetAgentState
    \/ LogExecuteAgent
    \/ LogGetResource
    \/ LogSetResource
    \/ LogGetResourceState
    \/ LogExecuteResource

SpecLog == InitLog /\ [][NextLog]_vars

----------------------------------------------------------------------------
(* ResourceAgentClient (agent.py 546-634) and the container's directory.   *)

\* The most registrations the directory holds under /Agents.
MaxRegistrations == 2

\* Directory entries under /Agents: the key is the agent's process id.
AgentEntries ==
    { [key |-> "p1", resource_id |-> "res1"],
      [key |-> "p2", resource_id |-> "res1"],
      [key |-> "p3", resource_id |-> "res2"] }

\* Resource ids a client is constructed with ("" is a false value) and the
\* name keyword (None: not given).
ResourceIds == {"", "res1", "res2"}
NameKwargs == {None, "px"}

\* The operations the client forwards, and the arguments of a call.
ClientOps ==
    { "negotiate", "get_capabilities", "execute_agent", "get_agent", "set_agent",
      "get_agent_state", "execute_resource", "get_resource", "set_resource",
      "get_resource_state", "emit" }
ClientArgs == { << >>, <<"x">>, <<"x", "y">> }
ClientKwargs == { {}, {<<"object", "o">>}, {<<"timeout", "10">>} }

\* directory.find_by_value('/Agents', 'resource_id', resource_id), line
\* 626: the entries registered for the resource id, in directory order.
find_by_value(directory, resource_id) ==
    SelectSeq(directory, LAMBDA e : e.resource_id = resource_id)

\* _get_agent_process_id taking the last registration found.
_get_agent_process_id_last(directory, resource_id) ==
    LET agent_procs == find_by_value(directory, resource_id)
    IN  IF Len(agent_procs) > 0 THEN agent_procs[Len(agent_procs)].key ELSE None

\* _get_agent_process_id, lines 621-634: the key of the first registration
\* found (more than one is only logged), None when there is none.
_get_agent_process_id(directory, resource_id) ==
    LET agent_procs == find_by_value(directory, resource_id)
    IN  IF Len(agent_procs) > 0 THEN agent_procs[1].key ELSE None

NoForward == [op |-> "None", args |-> << >>, kwargs |-> {}, target |-> None]

\* No client constructed yet.
NoClient(directory, asserts) ==
    [directory |-> directory, asserts |-> asserts, made |-> "no", outcome |-> "ok",
     resource_id |-> None, name_kwarg |-> None, seen |-> << >>, name |-> None,
     call |-> "None", forwarded |-> NoForward]

\* ResourceAgentClient.__init__, lines 550-576.  seen is the directory as
\* it was when the constructor ran; asserts tells whether assert
\* statements are compiled in.
ResourceAgentClient_init(c, resource_id, name_kwarg) ==
    LET d == [c EXCEPT !.resource_id = resource_id, !.name_kwarg = name_kwarg,
                       !.seen = c.directory]
    IN  IF c.asserts /\ resource_id = ""
        THEN [d EXCEPT !.made = "failed", !.outcome = "AssertionError"]
        ELSE IF name_kwarg # None
        THEN [d EXCEPT !.made = "ok", !.name = name_kwarg]
        ELSE LET process_id == _get_agent_process_id(c.directory, resource_id)
             IN  IF process_id # None
                 THEN [d EXCEPT !.made = "ok", !.name = process_id]
                 ELSE [d EXCEPT !.made = "failed", !.outcome = "NotFound"]

\* str(*args) and str(**kwargs) of lines 597-598 (Python 2): str takes at
\* most one positional argument and the keyword "object" only.
StrAccepts(args, kwargs) ==
    /\ Len(args) <= 1
    /\ \A kv \in kwargs : kv[1] = "object"

\* A client method, lines 582-615: the call is passed to the superclass
\* with self.resource_id put first; execute_resource prints its arguments
\* before.
Forward(c, op, args, kwargs) ==
    IF op = "execute_resource" /\ ~StrAccepts(args, kwargs)
    THEN [c EXCEPT !.call = op, !.outcome = "TypeError", !.forwarded = NoForward]
    ELSE [c EXCEPT !.call = op, !.outcome = "ok",
                   !.forwarded = [op |-> op, args |-> <<c.resource_id>> \o args,
                                  kwargs |-> kwargs, target |-> c.name]]

InitClient ==
    /\ initial_state = ResourceAgent_init(IDLE)
    /\ state_handlers = _construct_fsm
    /\ current_state = None
    /\ phase = "constructed"
    /\ nreg = 0
    /\ overwrites = NoOverwrites
    /\ last = NoCall
    /\ world = None
    /\ conc = None
    /\ log = None
    /\ \E asserts \in BOOLEAN : client = NoClient(<< >>, asserts)
    /\ launcher = None
    /\ store = None
    /\ streams = None

\* An agent process registers itself in the directory.
ClientRegisterAgent ==
    /\ Len(client.directory) < MaxRegistrations
    /\ \E e \in AgentEntries :
          /\ \A i \in DOMAIN client.directory : client.directory[i].key # e.key
          /\ client' = [client EXCEPT !.directory = Append(@, e)]
    /\ UNCHANGED <<initial_state, state_handlers, current_state, phase, nreg,
                   overwrites, last, world, conc, log, launcher, store, streams>>

ClientConstruct ==
    /\ client.made = "no"
    /\ \E resource_id \in ResourceIds, name_kwarg \in NameKwargs :
          client' = ResourceAgentClient_init(client, resource_id, name_kwarg)
    /\ UNCHANGED <<initial_state, state_handlers, current_state, phase, nreg,
                   overwrites, last, world, conc, log, launcher, store, streams>>

ClientCall ==
    /\ client.made = "ok"
    /\ \E op \in ClientOps, args \in ClientArgs, kwargs \in ClientKwargs :
          client' = Forward(client, op, args, kwargs)
    /\ UNCHANGED <<initial_state, state_handlers, current_state, phase, nreg,
                   overwrites, last, world, conc, log, launcher, store, streams>>

NextClient ==
    \/ ClientRegisterAgent
    \/ ClientConstruct
    \/ ClientCall

SpecClient == InitClient /\ [][NextClient]_vars

----------------------------------------------------------------------------
(* Launcher and ProcessStateGate (platform_agent_launcher.py).  The steps  *)
(* of one launch interleave with the launched process changing state; the  *)
(* process dispatcher publishes a lifecycle event at every change.         *)

\* timeout_spawn values: None, zero, and the default of 30 seconds.
TimeoutSpawns == {"None", "0", "30"}

\* "if timeout_spawn" holding for zero too.
Truthy_not_none(timeout_spawn) == timeout_spawn # "None"

\* "if timeout_spawn:", lines 90, 115 and 125: None and zero are false.
Truthy(timeout_spawn) == timeout_spawn \notin {"None", "0"}

\* The process launched and the states the dispatcher reports for it.
Pid == "pid1"
REQUESTED == "REQUESTED"
PENDING == "PENDING"
SPAWN == "SPAWN"
FAILED == "FAILED"

\* The state changes of a scheduled process.
ProcessSteps ==
    { <<REQUESTED, PENDING>>, <<REQUESTED, SPAWN>>, <<PENDING, SPAWN>>,
      <<REQUESTED, FAILED>>, <<PENDING, FAILED>>, <<SPAWN, FAILED>> }

LifecycleEvent(state, origin) == [state |-> state, origin |-> origin]
NoEvent == [state |-> "None", origin |-> "None"]

\* self._event_queue: None, line 43, or the queue made at line 116.
NoQueue == [made |-> FALSE, items |-> << >>]
NewQueue == [made |-> TRUE, items |-> << >>]

\* A launcher as constructed, lines 38-45, and the bookkeeping of one
\* launch: where it stands (pc), what the dispatcher was asked, the state
\* of the two subscriptions, what the launcher read and took, whether the
\* process reached SPAWN while the launch was under way, and the result.
NewLauncher(use_gate, timeout_spawn) ==
    [use_gate |-> use_gate, timeout_spawn |-> timeout_spawn, pc |-> "idle",
     definitions |-> 0, created |-> FALSE, scheduled |-> FALSE, process_state |-> "None",
     event_queue |-> NoQueue, event_sub |-> None, sub |-> "none",
     gate_sub |-> "none", gate_set |-> FALSE, gate_got |-> NoEvent, await |-> "none",
     reads |-> 0, read_state |-> "None", waited |-> FALSE, took |-> NoEvent,
     timed_out |-> FALSE, spawned_in_time |-> FALSE, result |-> "none"]

\* launch's finally clause, lines 66-68, as the launch returns or raises.
Finish(l, result) ==
    [l EXCEPT !.pc = "done", !.result = result, !.event_queue = NoQueue, !.event_sub = None]

\* _state_event_callback, lines 130-137.  Once launch's finally clause has
\* reset _event_queue, put fails inside the subscriber and the launcher is
\* left as it is.
_state_event_callback(l, event) ==
    IF l.event_queue = NoQueue THEN l
    ELSE [l EXCEPT !.event_queue.items = Append(@, event)]

\* "event == self.desired_state", line 211: the event object compared with
\* a state value; an event object is never equal to one.
EventIsState(event, desired_state) == FALSE

\* ProcessStateGate.trigger_cb, lines 210-213.
trigger_cb(l, event) ==
    IF EventIsState(event, SPAWN)
    THEN [l EXCEPT !.gate_sub = "stopped", !.gate_set = TRUE]
    ELSE l

\* The checks of the event taken from the queue with the state check left
\* out.
CheckEvent_origin_only(event, state, pid) ==
    IF event.origin # pid THEN "PlatformException" ELSE pid

\* _await_state_event, lines 177-185: the checks of the event taken.
CheckEvent(event, state, pid) ==
    IF event.state # state THEN "PlatformException"
    ELSE IF event.origin # pid THEN "PlatformException"
    ELSE pid

InitLaunch ==
    /\ initial_state = ResourceAgent_init(IDLE)
    /\ state_handlers = _construct_fsm
    /\ current_state = None
    /\ phase = "constructed"
    /\ nreg = 0
    /\ overwrites = NoOverwrites
    /\ last = NoCall
    /\ world = None
    /\ conc = None
    /\ log = None
    /\ client = None
    /\ \E use_gate \in BOOLEAN, timeout_spawn \in TimeoutSpawns :
          launcher = NewLauncher(use_gate, timeout_spawn)
    /\ store = None
    /\ streams = None

\* What no step of a launch touches.
NotLauncher ==
    <<initial_state, state_handlers, current_state, phase, nreg, overwrites, last,
      world, conc, log, client, store, streams>>

\* create_process_definition, lines 81 and 111.
LaunchCreateDefinition ==
    /\ launcher.pc = "idle"
    /\ launcher' = [launcher EXCEPT !.pc = "create_process", !.definitions = @ + 1]
    /\ UNCHANGED NotLauncher

\* create_process, lines 83 and 113.
LaunchCreateProcess ==
    /\ launcher.pc = "create_process"
    /\ launcher' = [launcher EXCEPT
                      !.created = TRUE,
                      !.pc = IF ~launcher.use_gate /\ Truthy(launcher.timeout_spawn)
                             THEN "subscribe" ELSE "schedule"]
    /\ UNCHANGED NotLauncher

\* _do_launch, lines 115-117, and _subscribe_events, lines 139-146.
LaunchSubscribe ==
    /\ launcher.pc = "subscribe"
    /\ launcher' = [launcher EXCEPT !.event_queue = NewQueue, !.event_sub = "EventSubscriber",
                                    !.sub = "started", !.pc = "schedule"]
    /\ UNCHANGED NotLauncher

\* schedule_process, lines 86-88 and 121-123; with no timeout the launch
\* returns the process id, lines 100 and 128.
LaunchSchedule ==
    /\ launcher.pc = "schedule"
    /\ LET l == [launcher EXCEPT !.scheduled = TRUE, !.process_state = REQUESTED]
       IN  launcher' =
             IF ~Truthy(launcher.timeout_spawn) THEN Finish(l, Pid)
             ELSE IF launcher.use_gate THEN [l EXCEPT !.pc = "gate"]
             ELSE [l EXCEPT !.pc = "read"]
    /\ UNCHANGED NotLauncher

\* ProcessStateGate(...), lines 91 and 200-208, with its read_process, then
\* the start of await, lines 216-217.
LaunchGate ==
    /\ launcher.pc = "gate"
    /\ launcher' = [launcher EXCEPT !.reads = @ + 1, !.gate_set = FALSE,
                                    !.gate_sub = "started", !.pc = "read"]
    /\ UNCHANGED NotLauncher

\* read_process and the comparison with SPAWN: await, lines 220-223, and
\* _await_state_event, lines 156-163.
LaunchRead ==
    /\ launcher.pc = "read"
    /\ LET l == [launcher EXCEPT !.reads = @ + 1, !.read_state = launcher.process_state]
       IN  launcher' =
             IF launcher.process_state = SPAWN
             THEN IF launcher.use_gate
                  THEN Finish([l EXCEPT !.gate_sub = "stopped", !.await = "True"], Pid)
                  ELSE Finish([l EXCEPT !.sub = "stopped"], Pid)
             ELSE [l EXCEPT !.pc = "wait", !.waited = TRUE]
    /\ UNCHANGED NotLauncher

\* The wait ends because what is waited for is there: an event in the
\* queue (lines 166 and 177-185, then 128) or the gate set (line 226, then
\* 100).
LaunchWake ==
    /\ launcher.pc = "wait"
    /\ IF launcher.use_gate
       THEN /\ launcher.gate_set
            /\ launcher' = Finish([launcher EXCEPT !.await = "True"], Pid)
       ELSE /\ Len(launcher.event_queue.items) > 0
            /\ LET event == Head(launcher.event_queue.items)
               IN  launcher' = Finish([launcher EXCEPT !.took = event],
                                      CheckEvent(event, SPAWN, Pid))
    /\ UNCHANGED NotLauncher

\* The wait ends because timeout_spawn seconds passed: queue.Empty, lines
\* 167-171; gate.wait returns False, line 226, which _do_launch_gate does
\* not look at, lines 92-100.
LaunchTimeout ==
    /\ launcher.pc = "wait"
    /\ IF launcher.use_gate
       THEN /\ ~launcher.gate_set
            /\ launcher' = Finish([launcher EXCEPT !.timed_out = TRUE, !.await = "False"],
                                  Pid)
       ELSE /\ Len(launcher.event_queue.items) = 0
            /\ launcher' = Finish([launcher EXCEPT !.timed_out = TRUE], "PlatformException")
    /\ UNCHANGED NotLauncher

\* The scheduled process changes state; the event published reaches the
\* subscriptions that are started.
ProcessAdvance ==
    /\ launcher.scheduled
    /\ \E step \in ProcessSteps :
          /\ step[1] = launcher.process_state
          /\ LET event == LifecycleEvent(step[2], Pid)
                 l1 == [launcher EXCEPT
                          !.process_state = step[2],
                          !.spawned_in_time =
                              @ \/ (step[2] = SPAWN /\ launcher.result = "none")]
                 l2 == IF launcher.sub = "started" THEN _state_event_callback(l1, event)
                       ELSE l1
                 l3 == IF launcher.gate_sub = "started"
                       THEN trigger_cb([l2 EXCEPT !.gate_got =
                                           IF step[2] = SPAWN THEN event ELSE @], event)
                       ELSE l2
             IN  launcher' = l3
    /\ UNCHANGED NotLauncher

NextLaunch ==
    \/ LaunchCreateDefinition
    \/ LaunchCreateProcess
    \/ LaunchSubscribe
    \/ LaunchSchedule
    \/ LaunchGate
    \/ LaunchRead
    \/ LaunchWake
    \/ LaunchTimeout
    \/ ProcessAdvance

SpecLaunch == InitLaunch /\ [][NextLaunch]_vars

----------------------------------------------------------------------------
(* Parsers feeding the stored-value manager (test_parsers.py).  A parser   *)
(* turns a document into key/value pairs; parse_document stores each pair; *)
(* read_value reads one key back.  The manager is a key-value store.       *)

MaxPairs == 3

\* Keys a parser may yield or a reader may ask for, and the values.
StoreKeys == {"spike_PRACSAL", "spike_CONDWAT", "spike_DENSITY"}
StoreValues == {"doc1", "doc2"}
Absent == "absent"

\* What a parser yields for a document: up to MaxPairs key/value pairs.
ParserOutputs ==
    UNION { [1..n -> (StoreKeys \ {"spike_DENSITY"}) \X StoreValues] : n \in 0..MaxPairs }

\* The store of a container just started, line 28.
EmptyStore == [k \in StoreKeys |-> Absent]

\* StoredValueManager.stored_value_cas(k, v): the value under k is v.
stored_value_cas(values, k, v) == [values EXCEPT ![k] = v]

\* StoredValueManager.read_value(k): the value under k, NotFound with none.
read_value(values, k) == IF values[k] = Absent THEN "NotFound" ELSE values[k]

RECURSIVE StorePairs(_, _, _)
StorePairs(values, pairs, n) ==
    IF n = 0 THEN values
    ELSE stored_value_cas(StorePairs(values, pairs, n - 1), pairs[n][1], pairs[n][2])

\* parse_document leaving out the last pair the parser yields.
parse_document_short(values, pairs) ==
    StorePairs(values, pairs, IF Len(pairs) = 0 THEN 0 ELSE Len(pairs) - 1)

\* parse_document, lines 31-39: every pair the parser yields is stored, in
\* the order yielded.
parse_document(values, pairs) == StorePairs(values, pairs, Len(pairs))

InitStore ==
    /\ initial_state = ResourceAgent_init(IDLE)
    /\ state_handlers = _construct_fsm
    /\ current_state = None
    /\ phase = "constructed"
    /\ nreg = 0
    /\ overwrites = NoOverwrites
    /\ last = NoCall
    /\ world = None
    /\ conc = None
    /\ log = None
    /\ client = None
    /\ launcher = None
    /\ \E pairs \in ParserOutputs :
          store = [pairs |-> pairs, values |-> EmptyStore, parsed |-> FALSE,
                   key |-> "None", got |-> "None", stored |-> FALSE]
    /\ streams = None

NotStore ==
    <<initial_state, state_handlers, current_state, phase, nreg, overwrites, last,
      world, conc, log, client, launcher, streams>>

\* self.parse_document(self.container, parser, path), lines 42 and 50.
StoreParse ==
    /\ ~store.parsed
    /\ store' = [store EXCEPT !.values = parse_document(@, store.pairs), !.parsed = TRUE]
    /\ UNCHANGED NotStore

\* self.svm.read_value(key), lines 44, 52 and 57; stored tells whether the
\* parser's output had been stored when the key was read.
StoreRead ==
    /\ \E k \in StoreKeys :
          store' = [store EXCEPT !.key = k, !.got = read_value(store.values, k),
                                  !.stored = store.parsed]
    /\ UNCHANGED NotStore

NextStore ==
    \/ StoreParse
    \/ StoreRead

SpecStore == InitStore /\ [][NextStore]_vars

----------------------------------------------------------------------------
(* The base agent: _construct_fsm as the core defines it, no specializing  *)
(* layer adding handlers, started in each of the eleven states.            *)

InitBase ==
    /\ \E arg \in {None} \cup ResourceAgentState :
          initial_state = ResourceAgent_init(arg)
    /\ state_handlers = _construct_fsm
    /\ current_state = None
    /\ phase = "constructed"
    /\ nreg = 0
    /\ overwrites = NoOverwrites
    /\ last = NoCall
    /\ world = None
    /\ conc = None
    /\ log = None
    /\ client = None
    /\ launcher = None
    /\ store = None
    /\ streams = None

NextBase ==
    \/ OnInit
    \/ GetCapabilities
    \/ GetAgentState
    \/ ExecuteAgent
    \/ GetResource
    \/ SetResource
    \/ GetResourceState
    \/ ExecuteResource

SpecBase == InitBase /\ [][NextBase]_vars

----------------------------------------------------------------------------
(* The base agent commanded through execute_agent with the names of the    *)
(* two synthetic events, which _construct_fsm registers like any other.    *)

HookCommands ==
    { [null |-> FALSE, command_id |-> i, command |-> n, args |-> a.args, kwargs |-> a.kwargs] :
        i \in CommandIds, n \in {ENTER, EXIT, RUN},
        a \in { [args |-> NoArgs, kwargs |-> NoKwargs],
                [args |-> SomeArgs, kwargs |-> SomeKwargs] } }

HookExecuteAgent ==
    \E command \in HookCommands : Do(execute_agent(state_handlers, current_state, command))

NextHook ==
    \/ OnInit
    \/ HookExecuteAgent

SpecHook == InitBase /\ [][NextHook]_vars

----------------------------------------------------------------------------
(* The CTD transforms (ctd_L0_all.py, ctd_L2_salinity.py).  A transform    *)
(* receives packets one at a time and publishes granules on its output     *)
(* streams.                                                                *)

MaxPackets == 2

Transforms == {"ctd_L0_all", "SalinityTransform"}

\* The packet {} and the granules a CTD sends: the seven fields the
\* algorithms load.
EmptyPacket ==
    [empty |-> TRUE, conductivity |-> 0, pressure |-> 0, temp |-> 0,
     lon |-> 0, lat |-> 0, time |-> 0, depth |-> 0]

CtdGranules ==
    { [empty |-> FALSE, conductivity |-> c, pressure |-> p, temp |-> t,
       lon |-> 7, lat |-> 8, time |-> tm, depth |-> 9] :
        c \in {41, 42}, p \in {11, 12}, t \in {21}, tm \in {1, 2} }

Packets == {EmptyPacket} \cup CtdGranules

\* _build_granule_settings, ctd_L0_all.py 160-188 and ctd_L2_salinity.py
\* 121-137: a granule holding the field and the four coordinates.
_build_granule_settings(field_name, value, time, latitude, longitude, depth) ==
    [field |-> field_name, value |-> value, time |-> time, lat |-> latitude,
     lon |-> longitude, depth |-> depth]

\* ctd_L0_algorithm.execute, ctd_L0_all.py 59-94: one dictionary of three
\* granules per input granule.
RECURSIVE ctd_L0_algorithm_execute(_)
ctd_L0_algorithm_execute(input) ==
    IF input = << >> THEN << >>
    ELSE LET x == Head(input)
             result ==
               [conductivity |-> _build_granule_settings("conductivity", <<x.conductivity>>,
                                     x.time, x.lat, x.lon, x.depth),
                temp         |-> _build_granule_settings("temp", <<x.temp>>,
                                     x.time, x.lat, x.lon, x.depth),
                pressure     |-> _build_granule_settings("pressure", <<x.pressure>>,
                                     x.time, x.lat, x.lon, x.depth)]
         IN  <<result>> \o ctd_L0_algorithm_execute(Tail(input))

\* seawater's SP_from_cndr(r, t, p), left as the term it is applied to.
SP_from_cndr(conductivity, temperature, pressure) ==
    <<"SP_from_cndr", conductivity, temperature, pressure>>

\* CTDL2SalinityTransformAlgorithm.execute, ctd_L2_salinity.py 54-76.
CTDL2SalinityTransformAlgorithm_execute(input) ==
    _build_granule_settings("salinity",
                            SP_from_cndr(input.conductivity, input.temp, input.pressure),
                            input.time, input.lat, input.lon, input.depth)

\* self.<stream>.publish(msg=...).
Published(stream, msg) == [stream |-> stream, msg |-> msg]

RECURSIVE PublishAll(_)
PublishAll(granules) ==
    IF granules = << >> THEN << >>
    ELSE LET granule == Head(granules)
         IN  << Published("conductivity", granule.conductivity),
                Published("temperature", granule.temp),
                Published("pressure", granule.pressure) >>
             \o PublishAll(Tail(granules))

\* ctd_L0_all.recv_packet publishing whatever the packet is.
ctd_L0_all_recv_packet_unguarded(packet) ==
    PublishAll(ctd_L0_algorithm_execute(<<packet>>))

\* ctd_L0_all.recv_packet, ctd_L0_all.py 43-55: what it publishes.
ctd_L0_all_recv_packet(packet) ==
    IF packet = EmptyPacket THEN << >>
    ELSE PublishAll(ctd_L0_algorithm_execute(<<packet>>))

\* SalinityTransform.recv_packet, ctd_L2_salinity.py 38-49: what it
\* publishes.
SalinityTransform_recv_packet(packet) ==
    IF packet = EmptyPacket THEN << >>
    ELSE << Published("salinity", CTDL2SalinityTransformAlgorithm_execute(packet)) >>

InitCtd ==
    /\ initial_state = ResourceAgent_init(IDLE)
    /\ state_handlers = _construct_fsm
    /\ current_state = None
    /\ phase = "constructed"
    /\ nreg = 0
    /\ overwrites = NoOverwrites
    /\ last = NoCall
    /\ world = None
    /\ conc = None
    /\ log = None
    /\ client = None
    /\ launcher = None
    /\ store = None
    /\ \E transform \in Transforms :
          streams = [transform |-> transform, received |-> 0, packet |-> EmptyPacket,
                     before |-> 0, published |-> << >>]

NotStreams ==
    <<initial_state, state_handlers, current_state, phase, nreg, overwrites, last,
      world, conc, log, client, launcher, store>>

\* A packet arrives at the L0 transform.
L0RecvPacket ==
    /\ streams.transform = "ctd_L0_all"
    /\ streams.received < MaxPackets
    /\ \E packet \in Packets :
          streams' = [streams EXCEPT !.received = @ + 1, !.packet = packet,
                                     !.before = Len(streams.published),
                                     !.published = @ \o ctd_L0_all_recv_packet(packet)]
    /\ UNCHANGED NotStreams

\* A packet arrives at the salinity transform.
SalinityRecvPacket ==
    /\ streams.transform = "SalinityTransform"
    /\ streams.received < MaxPackets
    /\ \E packet \in Packets :
          streams' = [streams EXCEPT !.received = @ + 1, !.packet = packet,
                                     !.before = Len(streams.published),
                                     !.published = @ \o SalinityTransform_recv_packet(packet)]
    /\ UNCHANGED NotStreams

NextCtd ==
    \/ L0RecvPacket
    \/ SalinityRecvPacket

SpecCtd == InitCtd /\ [][NextCtd]_vars

----------------------------------------------------------------------------
(* Properties.                                                             *)

Step(step, at) == [step |-> step, at |-> at]
Record(dir, state) == [dir |-> dir, state |-> state]

\* The last call dispatched an event to the FSM.
Dispatched == phase = "started" /\ last.fsm_calls = 1

\* The last call dispatched an event with no handler at the state it was
\* made in (the table is fixed once the agent is started).
Rejected == Dispatched /\ <<last.pre, last.event>> \notin DOMAIN state_handlers

\* The last call dispatched an event whose handler defines a transition.
Transition == Dispatched /\ last.invoked /\ last.next \in ResourceAgentState

ConflictOps == {"execute_agent", "get_resource", "set_resource", "execute_resource"}

\* C1: an event with no handler at the current state S is refused with
\* the state-mismatch error naming S and the event; the handler table is
\* not entered, no EXIT or ENTER hook runs and the current state stays S.
\* The caller sees the refusal as Conflict, or as the raw FSMStateError
\* from get_resource_state; only get_capabilities absorbs it.
C1_UnhandledEventRefused ==
    Rejected =>
        /\ last.fsm_error
        /\ last.fsm_errargs = <<last.pre, last.event>>
        /\ ~last.invoked
        /\ last.steps = << >>
        /\ last.records = << >>
        /\ last.post = last.pre
        /\ current_state = last.pre
        /\ last.op # "get_capabilities" =>
              /\ last.outcome \in {"Conflict", "FSMStateError"}
              /\ last.errargs = <<last.pre, last.event>>

C1_Witness ==
    /\ Rejected
    /\ last.op = "get_resource_state"
    /\ last.outcome = "FSMStateError"
    /\ last.pre = COMMAND
    /\ current_state = COMMAND

\* C2: when the FSM refuses the event of execute_agent, get_resource,
\* set_resource or execute_resource, the call raises Conflict with exactly
\* the args of the FSM's error and the current state is what it was; and
\* whenever the event is registered at the state the call is made in, the
\* same call succeeds.
C2_ConflictCarriesFsmArgs ==
    (Dispatched /\ last.op \in ConflictOps) =>
        /\ last.fsm_error =>
              /\ last.outcome = "Conflict"
              /\ last.errargs = last.fsm_errargs
              /\ last.errargs = <<last.pre, last.event>>
              /\ current_state = last.pre
        /\ <<last.pre, last.event>> \in DOMAIN state_handlers =>
              last.outcome = "ok"
        /\ last.outcome \in {"ok", "Conflict"}

\* A set_resource refused at IDLE, where the table registers a transition
\* from IDLE to COMMAND and SET_RESOURCE at COMMAND, so that the retry
\* after that transition succeeds.
C2_Witness ==
    /\ Dispatched
    /\ last.op = "set_resource"
    /\ last.outcome = "Conflict"
    /\ last.errargs = <<IDLE, SET_RESOURCE>>
    /\ current_state = IDLE
    /\ <<COMMAND, SET_RESOURCE>> \in DOMAIN state_handlers
    /\ <<IDLE, RUN>> \in DOMAIN state_handlers
    /\ state_handlers[<<IDLE, RUN>>].next = COMMAND

\* C3: execute_agent and execute_resource given no command, or a command
\* with an empty name, raise BadRequest in every state without calling
\* on_event and without changing the current state, also where the event
\* would have been refused.
C3_BadRequestBeforeFsm ==
    (phase = "started" /\ last.op \in {"execute_agent", "execute_resource"}
        /\ (last.command.null \/ last.command.command = "")) =>
        /\ last.outcome = "BadRequest"
        /\ last.errargs =
              IF last.command.null THEN <<MsgCommandNotSet>> ELSE <<MsgNameNotSet>>
        /\ last.fsm_calls = 0
        /\ ~last.invoked
        /\ last.steps = << >>
        /\ current_state = last.pre

\* execute_resource with an empty command name and arguments, at a state
\* with no EXECUTE_RESOURCE handler.
C3_Witness ==
    /\ phase = "started"
    /\ last.op = "execute_resource"
    /\ ~last.command.null
    /\ last.command.command = ""
    /\ ~last.command.args.null
    /\ last.outcome = "BadRequest"
    /\ <<current_state, EXECUTE_RESOURCE>> \notin DOMAIN state_handlers

\* C4: in a transition from A to B the EXIT hook of A runs before the
\* ENTER hook of B, the EXIT hook reads A as the current state and the
\* ENTER hook reads B.
C4_ExitSeesOldEnterSeesNew ==
    Transition =>
        /\ last.records = << Record("leaving", last.pre), Record("entered", last.next) >>
        /\ \E i, j \in 1..Len(last.steps) :
              /\ i < j
              /\ last.steps[i] = Step("exit", last.pre)
              /\ last.steps[j] = Step("enter", last.next)

C4_Witness ==
    /\ Transition
    /\ last.pre = IDLE
    /\ last.next = COMMAND
    /\ last.records = << Record("leaving", IDLE), Record("entered", COMMAND) >>

\* C5: when a call whose handler defines a transition from A to B has
\* returned, the engine has run, in this order and once each, the handler,
\* the EXIT hook of A, the cursor update to B and the ENTER hook of B; the
\* state an observer then reads is B, whose ENTER hook was the last thing
\* the call did.
C5_TransitionCompleteOnReturn ==
    Transition =>
        /\ last.steps = << Step("handler", last.pre), Step("exit", last.pre),
                           Step("set", last.next), Step("enter", last.next) >>
        /\ last.post = last.next
        /\ current_state = last.next
        /\ get_agent_state(state_handlers, current_state).ret.result = last.next

\* A self-transition: COMMAND is left and entered again.
C5_Witness ==
    /\ Transition
    /\ last.pre = COMMAND
    /\ last.next = COMMAND
    /\ Len(last.steps) = 4
    /\ current_state = COMMAND

\* C6: start-up sets the current state to the agent's selected initial
\* state and runs that state's ENTER hook once and no EXIT hook.
C6_StartEntersInitialState ==
    (last.op = "_on_init" /\ last.outcome = "ok") =>
        /\ phase = "started"
        /\ current_state = initial_state.value
        /\ last.steps = << Step("set", initial_state.value),
                           Step("enter", initial_state.value) >>
        /\ last.records = << Record("entered", initial_state.value) >>

C6_Witness ==
    /\ last.op = "_on_init"
    /\ last.outcome = "ok"
    /\ initial_state.kwarg = DIRECT_ACCESS
    /\ current_state = DIRECT_ACCESS
    /\ last.records = << Record("entered", DIRECT_ACCESS) >>

\* C7: once _on_init has run the agent is started, in UNINITIALIZED when
\* no initial_state was given, in the given state when it is a known
\* state, and in UNINITIALIZED when it is not; start-up never fails.
C7_InitialStateFallsBack ==
    phase # "constructed" =>
        /\ phase = "started"
        /\ current_state =
              IF initial_state.kwarg = None THEN UNINITIALIZED
              ELSE IF initial_state.kwarg \in ResourceAgentState
                   THEN initial_state.kwarg
                   ELSE UNINITIALIZED

\* C8: the table holds an ENTER and an EXIT handler for each of the
\* eleven states, from construction on.
C8_EnterExitEverywhere ==
    /\ Cardinality(ResourceAgentState) = 11
    /\ \A s \in ResourceAgentState :
          /\ <<s, ENTER>> \in DOMAIN state_handlers
          /\ <<s, EXIT>> \in DOMAIN state_handlers

C8_Witness ==
    /\ phase = "started"
    /\ nreg = MaxHandlers
    /\ Cardinality(DOMAIN state_handlers) = 22 + MaxHandlers
    /\ Transition
    /\ <<BUSY, EXIT>> \in DOMAIN state_handlers

C10_ExecuteAgentResult ==
    (phase = "started" /\ last.op = "execute_agent" /\ ~last.command.null
        /\ last.command.command # ""
        /\ <<last.pre, last.command.command>> \in DOMAIN state_handlers) =>
        /\ last.outcome = "ok"
        /\ last.fsm_calls = 1
        /\ last.event = last.command.command
        /\ last.invoked
        /\ last.hargs = (IF last.command.args.null THEN << >> ELSE last.command.args.items)
        /\ last.hkwargs = (IF last.command.kwargs.null THEN {} ELSE last.command.kwargs.items)
        /\ last.ret.kind = "CommandResult"
        /\ last.ret.command_id = last.command.command_id
        /\ last.ret.command = last.command.command
        /\ last.ret.status = 0
        /\ last.ret.result = state_handlers[<<last.pre, last.command.command>>].result

C10_Witness ==
    /\ phase = "started"
    /\ last.op = "execute_agent"
    /\ last.command.command = RUN
    /\ last.command.command_id = 2
    /\ last.hargs = <<"a">>
    /\ last.outcome = "ok"
    /\ last.ret.result = "r2"
    /\ current_state = COMMAND

\* C11: execute_resource given a named command always dispatches the
\* EXECUTE_RESOURCE event, never the command's name, with the name as first
\* positional argument followed by the command's args and kwargs, and where
\* that event is registered it returns a result carrying the command's id
\* and name, status 0 and the handler's value.
C11_ExecuteResourceDispatch ==
    (phase = "started" /\ last.op = "execute_resource" /\ ~last.command.null
        /\ last.command.command # "") =>
        /\ last.fsm_calls = 1
        /\ last.event = EXECUTE_RESOURCE
        /\ <<last.pre, EXECUTE_RESOURCE>> \in DOMAIN state_handlers =>
              /\ last.outcome = "ok"
              /\ last.invoked
              /\ last.hargs = <<last.command.command>> \o last.command.args.items
              /\ last.hkwargs = last.command.kwargs.items
              /\ last.ret = CommandResult(last.command.command_id, last.command.command, 0,
                                          state_handlers[<<last.pre, EXECUTE_RESOURCE>>].result)

\* C12: get_capabilities in a state with no GET_RESOURCE_CAPABILITIES
\* handler returns one AGT_CMD capability per event of get_events for the
\* requested filter and no resource capability, raises nothing and leaves
\* the current state.
C12_CapabilitiesDegrade ==
    (Rejected /\ last.op = "get_capabilities") =>
        /\ last.outcome = "ok"
        /\ last.event = GET_RESOURCE_CAPABILITIES
        /\ last.ret.kind = "caps"
        /\ last.ret.agent_caps =
              {[name |-> e, cap_type |-> "AGT_CMD"] :
                  e \in get_events(state_handlers, last.pre, last.flag)}
        /\ last.ret.result = EmptyList
        /\ current_state = last.pre

\* The whole vocabulary is asked for at IDLE, where RUN is registered and
\* GET_RESOURCE_CAPABILITIES is not.
C12_Witness ==
    /\ Rejected
    /\ last.op = "get_capabilities"
    /\ ~last.flag
    /\ last.pre = IDLE
    /\ [name |-> RUN, cap_type |-> "AGT_CMD"] \in last.ret.agent_caps
    /\ last.ret.result = EmptyList

\* C13: get_resource_state in a state with no GET_RESOURCE_STATE handler
\* fails with the FSM's own FSMStateError, not Conflict, and leaves the
\* current state; get_resource, set_resource and execute_resource raise
\* Conflict when their event is refused.
C13_ResourceStateErrorUntranslated ==
    Rejected =>
        /\ last.op = "get_resource_state" =>
              /\ last.outcome = "FSMStateError"
              /\ last.errargs = <<last.pre, GET_RESOURCE_STATE>>
              /\ current_state = last.pre
        /\ last.op \in {"get_resource", "set_resource", "execute_resource"} =>
              last.outcome = "Conflict"
        /\ last.outcome = "FSMStateError" => last.op = "get_resource_state"

\* Refused at IDLE although the table registers the event at COMMAND.
C13_Witness ==
    /\ Rejected
    /\ last.op = "get_resource_state"
    /\ last.outcome = "FSMStateError"
    /\ last.pre = IDLE
    /\ <<COMMAND, GET_RESOURCE_STATE>> \in DOMAIN state_handlers

\* C15: for every registered pair (S, E), the capabilities built from
\* get_events(current_state_only = True) name E when the current state is
\* S and do not name E at a state with no handler for E; those built from
\* get_events(current_state_only = False) name E at every state.
C15_GetEventsRoundTrip ==
    (phase = "started" /\ last.op = "get_capabilities" /\ last.outcome = "ok") =>
        \A p \in DOMAIN state_handlers :
            LET cap == [name |-> p[2], cap_type |-> "AGT_CMD"]
            IN  /\ p[2] \in get_events(state_handlers, p[1], TRUE)
                /\ p[2] \in get_events(state_handlers, last.pre, FALSE)
                /\ last.flag =>
                      (cap \in last.ret.agent_caps
                          <=> <<last.pre, p[2]>> \in DOMAIN state_handlers)
                /\ ~last.flag => cap \in last.ret.agent_caps

\* SET_RESOURCE is registered at COMMAND only; the agent is at IDLE and is
\* asked for the whole vocabulary.
C15_Witness ==
    /\ phase = "started"
    /\ last.op = "get_capabilities"
    /\ ~last.flag
    /\ last.pre = IDLE
    /\ <<COMMAND, SET_RESOURCE>> \in DOMAIN state_handlers
    /\ <<IDLE, SET_RESOURCE>> \notin DOMAIN state_handlers
    /\ [name |-> SET_RESOURCE, cap_type |-> "AGT_CMD"] \in last.ret.agent_caps

\* C16: with RUN registered only at IDLE, by a handler that moves to
\* COMMAND, and the agent started at IDLE: RUN at IDLE returns the
\* handler's value and leaves the agent in COMMAND; RUN at COMMAND is
\* refused with the state-mismatch error and leaves it in COMMAND.
RunScenario ==
    /\ phase = "started"
    /\ initial_state.value = IDLE
    /\ <<IDLE, RUN>> \in DOMAIN state_handlers
    /\ state_handlers[<<IDLE, RUN>>].next = COMMAND
    /\ <<COMMAND, RUN>> \notin DOMAIN state_handlers

C16_RunThenConflict ==
    (RunScenario /\ last.op = "execute_agent" /\ ~last.command.null
        /\ last.command.command = RUN) =>
        /\ last.pre = IDLE =>
              /\ last.outcome = "ok"
              /\ last.ret.result = state_handlers[<<IDLE, RUN>>].result
              /\ current_state = COMMAND
        /\ last.pre = COMMAND =>
              /\ last.outcome = "Conflict"
              /\ last.errargs = <<COMMAND, RUN>>
              /\ last.fsm_error
              /\ current_state = COMMAND

\* The second RUN: the only registration is (IDLE, RUN), so COMMAND was
\* reached by the first.
C16_Witness ==
    /\ RunScenario
    /\ nreg = 1
    /\ last.op = "execute_agent"
    /\ last.command.command = RUN
    /\ last.pre = COMMAND
    /\ last.outcome = "Conflict"
    /\ current_state = COMMAND

\* C17: the cursor changes only in start-up and in a call that dispatches
\* an event; get_agent_state changes neither the cursor nor the table,
\* returns the cursor and never fails; add_handler leaves the cursor and
\* every table entry other than the registered pair; the table changes in
\* add_handler only.
C17_CursorAndTableFrame ==
    [][ /\ (phase' = "started" /\ last'.op = "get_agent_state") =>
              /\ current_state' = current_state
              /\ state_handlers' = state_handlers
              /\ last'.outcome = "ok"
              /\ last'.fsm_calls = 0
              /\ last'.ret.result = current_state
        /\ nreg' # nreg =>
              /\ current_state' = current_state
              /\ \E p \in DOMAIN state_handlers' :
                    /\ DOMAIN state_handlers' = DOMAIN state_handlers \cup {p}
                    /\ \A q \in DOMAIN state_handlers \ {p} :
                          state_handlers'[q] = state_handlers[q]
        /\ current_state' # current_state =>
              \/ last'.op = "_on_init"
              \/ last'.fsm_calls = 1
        /\ state_handlers' # state_handlers => nreg' = nreg + 1
      ]_vars

\* get_agent_state read in COMMAND, after two registrations and a transition.
C17_Witness ==
    /\ phase = "started"
    /\ nreg = MaxHandlers
    /\ initial_state.value = IDLE
    /\ last.op = "get_agent_state"
    /\ last.ret.result = COMMAND
    /\ current_state = COMMAND

\* C18: the table holds one handler per pair; registering a second
\* handler for a pair succeeds silently, the pair then holds the second
\* one, and an event dispatched at that pair runs the second one only.
C18_LastRegistrationWins ==
    /\ \A p \in DOMAIN state_handlers :
          state_handlers[p] \in UserHandlers \cup {EnterHandler, ExitHandler}
    /\ Cardinality(DOMAIN state_handlers) <= Cardinality(DOMAIN _construct_fsm) + nreg
    /\ \A p \in DOMAIN overwrites :
          /\ p \in DOMAIN state_handlers
          /\ state_handlers[p] = overwrites[p].new
    /\ (Dispatched /\ <<last.pre, last.event>> \in DOMAIN overwrites) =>
          LET h == overwrites[<<last.pre, last.event>>].new
          IN  /\ last.invoked
              /\ ~last.fsm_error
              /\ last.hresult = h.result
              /\ last.next = h.next
              /\ Cardinality({i \in 1..Len(last.steps) : last.steps[i].step = "handler"}) = 1

\* An event dispatched at a pair whose first handler was replaced by a
\* different one: the value returned is the second handler's.
C18_Witness ==
    /\ Dispatched
    /\ <<last.pre, last.event>> \in DOMAIN overwrites
    /\ overwrites[<<last.pre, last.event>>].old # overwrites[<<last.pre, last.event>>].new
    /\ overwrites[<<last.pre, last.event>>].old.result = "r2"
    /\ last.hresult = "r1"
    /\ current_state = last.pre

\* C14: in every operation of the agent, an exception a handler raises
\* that is not FSMStateError reaches the caller as it is: it is not turned
\* into Conflict or InvalidInput, and get_capabilities does not swallow it.
C14_HandlerFailurePropagates ==
    (last.invoked /\ last.raised # None) =>
        /\ last.raised # "FSMStateError"
        /\ last.outcome = last.raised
        /\ last.outcome \notin {"ok", "Conflict", "InvalidInput", "BadRequest"}
        /\ last.errargs = << >>
        /\ last.ret = NoReturn
        /\ last.fsm_calls = 1
        /\ last.op \in { "get_capabilities", "execute_agent", "get_resource",
                         "set_resource", "get_resource_state", "execute_resource" }

\* get_capabilities on an agent whose GET_RESOURCE_CAPABILITIES handler at
\* the current state raises ValueError: the caller gets the ValueError.
C14_Witness ==
    /\ last.op = "get_capabilities"
    /\ last.event = GET_RESOURCE_CAPABILITIES
    /\ last.invoked
    /\ last.raised = "ValueError"
    /\ last.outcome = "ValueError"
    /\ state_handlers[<<last.pre, GET_RESOURCE_CAPABILITIES>>] \in FailingHandlers

\* C19: with two agents in one process, a call made on one of them,
\* whatever the calls made before on either, leaves the current state and
\* the table of the other as they were.
C19_InstancesIsolated ==
    [][\A b \in Agents :
          b # world'.actor =>
              /\ Fsm(b)'.cur = Fsm(b).cur
              /\ Fsm(b)'.table = Fsm(b).table]_vars

\* Both agents started at IDLE; a1, which registered a handler for RUN that
\* a2 did not, was sent RUN last and is in COMMAND, a2 is still in IDLE.
C19_Witness ==
    /\ world.actor = "a1"
    /\ world.op = "execute_agent"
    /\ world.outcome = "ok"
    /\ world.phase["a2"] = "started"
    /\ Fsm("a1").cur = COMMAND
    /\ Fsm("a2").cur = IDLE
    /\ <<IDLE, RUN>> \in DOMAIN Fsm("a1").table
    /\ <<IDLE, RUN>> \notin DOMAIN Fsm("a2").table

\* The orders in which the callers' requests can be executed one by one.
Orders ==
    {o \in [1..Cardinality(Callers) -> Callers] :
        \A i, j \in DOMAIN o : i # j => o[i] # o[j]}

\* The requests req executed one after the other in the given order from
\* cursor cur, each as one call: the final cursor, what each caller gets
\* back, and the engine steps.
RECURSIVE Sequential(_, _, _, _)
Sequential(table, req, order, cur) ==
    IF Len(order) = 0
    THEN [final |-> cur, out |-> [u \in {} |-> Outcome(NoCall)], trace |-> << >>]
    ELSE LET t == order[1]
             c == Serve(req[t], table, cur)
             rest == Sequential(table, req, SubSeq(order, 2, Len(order)), c.post)
         IN  [final |-> rest.final,
              out   |-> [u \in DOMAIN rest.out \cup {t} |->
                            IF u = t THEN Outcome(c) ELSE rest.out[u]],
              trace |-> Tag(t, c.steps) \o rest.trace]

\* C20: commands sent to one agent at the same time, with at most one
\* on_event call in flight: once all have returned, the current state,
\* what each caller got back and the engine steps are those of the same
\* commands executed one after the other in some order; at no moment are
\* the steps of one dispatch mixed with those of another.
C20_DispatchesSerialize ==
    /\ \A i, j, k \in DOMAIN conc.trace :
          (i < j /\ j < k /\ conc.trace[i].caller = conc.trace[k].caller)
              => conc.trace[j].caller = conc.trace[i].caller
    /\ (\A t \in Callers : conc.pc[t] = "done") =>
          \E o \in Orders :
              LET r == Sequential(state_handlers, conc.req, o, conc.start)
              IN  /\ r.final = current_state
                  /\ \A t \in Callers : r.out[t] = conc.out[t]
                  /\ r.trace = conc.trace

\* Both callers sent RUN to the agent at IDLE, whose RUN handler leads to
\* COMMAND, where RUN has no handler: t2's dispatch ran first and made the
\* transition, t1 got Conflict.
C20_Witness ==
    /\ \A t \in Callers : conc.pc[t] = "done" /\ conc.req[t].command = RunCommand
    /\ conc.start = IDLE
    /\ current_state = COMMAND
    /\ conc.out["t2"].outcome = "ok"
    /\ conc.out["t1"].outcome = "Conflict"
    /\ conc.out["t1"].errargs = <<COMMAND, RUN>>
    /\ Len(conc.trace) = 4
    /\ \A i \in DOMAIN conc.trace : conc.trace[i].caller = "t2"

\* The state named by the latest "entered" record before position i.
LastEntered(i) ==
    LET js == {j \in 1..(i - 1) : log[j].dir = "entered"}
    IN  log[CHOOSE j \in js : \A k \in js : k <= j].state

\* C21: the records of one agent are one "entered S0" at start, then per
\* transition A to B one "leaving A" followed at once by one "entered B";
\* every "leaving" names the state of the latest "entered"; a dispatch
\* that does not change state writes no record.
C21_RecordSequence ==
    phase = "started" =>
        /\ Len(log) >= 1
        /\ log[1] = Record("entered", initial_state.value)
        /\ \A i \in 2..Len(log) :
              /\ log[i].dir = "leaving" =>
                    /\ i < Len(log)
                    /\ log[i + 1].dir = "entered"
                    /\ log[i].state = LastEntered(i)
              /\ log[i].dir = "entered" => log[i - 1].dir = "leaving"
        /\ (last.op # "_on_init" /\ ~Transition) => last.records = << >>
        /\ Transition =>
              last.records = << Record("leaving", last.pre), Record("entered", last.next) >>

\* The last client call was passed on to the agent.
Forwarded == client.made = "ok" /\ client.forwarded.op # "None"

\* C22 as stated: constructing a client for a resource id fails with
\* NotFound when the directory holds no registration for it, otherwise
\* targets the first registration found; every forwarded call has the
\* resource id of construction as first argument.
C22_ClientResolves ==
    /\ client.made # "no" =>
          LET found == find_by_value(client.seen, client.resource_id)
          IN  /\ Len(found) = 0 => (client.made = "failed" /\ client.outcome = "NotFound")
              /\ Len(found) > 0 => (client.made = "ok" /\ client.name = found[1].key)
    /\ Forwarded => client.forwarded.args[1] = client.resource_id

\* C22, amended: the same for a client constructed without the name
\* keyword and with a resource id that is not a false value; with the name
\* keyword the directory is not consulted and the name given is the
\* target.
C22_ClientResolvesUnnamed ==
    /\ (client.made # "no" /\ client.name_kwarg = None /\ client.resource_id # "") =>
          LET found == find_by_value(client.seen, client.resource_id)
          IN  /\ Len(found) = 0 => (client.made = "failed" /\ client.outcome = "NotFound")
              /\ Len(found) > 0 => (client.made = "ok" /\ client.name = found[1].key)
    /\ (client.made # "no" /\ client.name_kwarg # None /\ client.resource_id # "") =>
          (client.made = "ok" /\ client.name = client.name_kwarg)
    /\ Forwarded =>
          /\ client.forwarded.args[1] = client.resource_id
          /\ client.forwarded.op = client.call
          /\ client.forwarded.target = client.name

\* Two agents are registered for res1; the client constructed for res1
\* targets the one registered first, p2, and its get_resource call went
\* out with res1 first.
C22_Witness ==
    /\ Len(find_by_value(client.seen, "res1")) = 2
    /\ client.name_kwarg = None
    /\ client.resource_id = "res1"
    /\ client.made = "ok"
    /\ client.name = "p2"
    /\ client.seen[1].key = "p2"
    /\ client.seen[2].key = "p1"
    /\ client.forwarded.op = "get_resource"
    /\ client.forwarded.args = <<"res1", "x">>

\* A launch is under way or over; it is over once it returned or raised.
Launching == launcher.pc # "idle"
Launched == launcher.pc = "done"

\* C23: with timeout_spawn None or zero, in either mode, launch creates the
\* definition, creates the process, schedules it and returns the process
\* id, and at no point subscribes, reads the process state or waits.
C23_LaunchWithoutTimeout ==
    (Launching /\ launcher.timeout_spawn \in {"None", "0"}) =>
        /\ launcher.sub = "none" /\ launcher.gate_sub = "none"
        /\ launcher.event_queue = NoQueue /\ launcher.event_sub = None
        /\ launcher.reads = 0 /\ ~launcher.waited
        /\ launcher.pc = "done" =>
              /\ launcher.result = Pid
              /\ launcher.definitions = 1 /\ launcher.created /\ launcher.scheduled

C23_Witness ==
    /\ Launched /\ launcher.timeout_spawn = "0" /\ launcher.use_gate
    /\ launcher.result = Pid /\ launcher.reads = 0 /\ launcher.scheduled

\* C25: a gate-mode launch with a non-zero timeout whose process did not
\* reach SPAWN before the timeout passed raises PlatformException and does
\* not return the process id.
C25_GateTimeoutRaises ==
    (Launched /\ launcher.use_gate /\ launcher.timeout_spawn = "30"
       /\ launcher.timed_out /\ ~launcher.spawned_in_time) =>
        launcher.result = "PlatformException"

\* C26: await returns true when the process is read in the desired state,
\* and returns true when it is not but an event reporting the desired state
\* is delivered to the gate before the timeout; in both cases the gate's
\* subscription has been stopped.
C26_GateAwait ==
    (Launching /\ launcher.await # "none") =>
        /\ launcher.read_state = SPAWN =>
              launcher.await = "True" /\ launcher.gate_sub = "stopped"
        /\ (launcher.read_state # SPAWN /\ launcher.gate_got.state = SPAWN) =>
              launcher.await = "True" /\ launcher.gate_sub = "stopped"

\* C27: a non-gate launch with a non-zero timeout returns the process id
\* exactly when the state read after scheduling is SPAWN, or the first event
\* taken from the queue has state SPAWN and the process id as origin; every
\* other launch raises PlatformException.
C27_NonGateOutcome ==
    (Launched /\ ~launcher.use_gate /\ launcher.timeout_spawn = "30") =>
        /\ launcher.result \in {Pid, "PlatformException"}
        /\ launcher.result = Pid <=>
              \/ launcher.read_state = SPAWN
              \/ launcher.took.state = SPAWN /\ launcher.took.origin = Pid

C27_Witness ==
    /\ Launched /\ ~launcher.use_gate /\ launcher.timeout_spawn = "30"
    /\ launcher.read_state = REQUESTED
    /\ launcher.took = LifecycleEvent(SPAWN, Pid)
    /\ launcher.result = Pid

\* The launch found the process in SPAWN: by the state read or by an event.
Detected ==
    IF launcher.use_gate THEN launcher.await = "True" ELSE launcher.result = Pid

\* C28: in either mode the subscription is started before the state is
\* read, and a process that reaches SPAWN before the timeout is detected.
C28_NoLostNotification ==
    /\ (Launching /\ launcher.read_state # "None") =>
          (launcher.sub # "none" \/ launcher.gate_sub # "none")
    /\ (Launching /\ ~launcher.use_gate /\ launcher.scheduled
          /\ launcher.timeout_spawn = "30") => launcher.sub # "none"
    /\ (Launched /\ launcher.timeout_spawn = "30" /\ launcher.spawned_in_time) =>
          Detected

\* C29: a non-gate launch with a non-zero timeout that is over has stopped
\* the subscription it started, and after every launch _event_queue and
\* _event_sub are None.
C29_SubscriptionReleased ==
    Launched =>
        /\ launcher.event_queue = NoQueue /\ launcher.event_sub = None
        /\ (~launcher.use_gate /\ launcher.timeout_spawn = "30") =>
              launcher.sub = "stopped"

\* The pairs a parser yielded hold key k, and the value of the last of them.
Yielded(pairs, k) == \E i \in 1..Len(pairs) : pairs[i][1] = k
LastYielded(pairs, k) ==
    LET i == CHOOSE i \in 1..Len(pairs) :
                 /\ pairs[i][1] = k
                 /\ \A j \in (i + 1)..Len(pairs) : pairs[j][1] # k
    IN  pairs[i][2]

C30_BaseAgentRejects ==
    (phase = "started" /\ state_handlers = _construct_fsm) =>
        /\ current_state = initial_state.value
        /\ last.op \in {"get_resource", "set_resource"} => last.outcome = "Conflict"
        /\ (last.op = "execute_resource" /\ ~last.command.null
              /\ last.command.command # "") =>
              last.outcome = "Conflict"
        /\ (last.op = "execute_agent" /\ ~last.command.null
              /\ last.command.command \in {RUN, GET_RESOURCE}) =>
              last.outcome = "Conflict"

\* The last call was execute_agent with a command named name.
Commanded(name) ==
    /\ phase = "started"
    /\ last.op = "execute_agent"
    /\ ~last.command.null
    /\ last.command.command = name

\* C31: execute_agent with a command named ENTER or EXIT is not rejected
\* with Conflict in any state: it runs the state's bookkeeping hook, which
\* writes one 'entered' or 'leaving' record for that state, makes no
\* transition and leaves the current state as it was.
C31_HookCommandsAccepted ==
    \A name \in {ENTER, EXIT} :
        Commanded(name) =>
            /\ last.outcome = "ok"
            /\ last.invoked
            /\ last.records =
                  << Record(IF name = ENTER THEN "entered" ELSE "leaving", last.pre) >>
            /\ last.steps = << Step("handler", last.pre) >>
            /\ last.post = last.pre
            /\ current_state = last.pre

C31_Witness ==
    /\ Commanded(EXIT)
    /\ last.pre = IDLE
    /\ last.outcome = "ok"
    /\ last.records = << Record("leaving", IDLE) >>
    /\ current_state = IDLE

\* The last call was execute_agent or execute_resource with a named command
\* whose args and kwargs are both unset; the event it is to dispatch.
NullArgsCall ==
    /\ phase = "started"
    /\ last.op \in {"execute_agent", "execute_resource"}
    /\ ~last.command.null
    /\ last.command.command # ""
    /\ last.command.args.null
    /\ last.command.kwargs.null
EventOf(call) ==
    IF call.op = "execute_agent" THEN call.command.command ELSE EXECUTE_RESOURCE

\* C32: execute_agent and execute_resource given a named command whose args
\* and kwargs are unset both dispatch their event, with no positional
\* argument beyond the name execute_resource puts first and with no keyword
\* argument, and return a CommandResult where the event has a handler;
\* neither fails because the arguments are absent.
C32_NullArgsAlike ==
    NullArgsCall =>
        /\ last.fsm_calls = 1
        /\ last.outcome # "TypeError"
        /\ <<last.pre, EventOf(last)>> \in DOMAIN state_handlers =>
              /\ last.outcome = "ok"
              /\ last.invoked
              /\ last.hargs = IF last.op = "execute_agent" THEN << >>
                              ELSE <<last.command.command>>
              /\ last.hkwargs = {}
              /\ last.ret.kind = "CommandResult"

\* C33: set_resource returns exactly the value the SET_RESOURCE handler
\* returned; get_resource, when the GET_RESOURCE handler succeeds, returns
\* no value whatever the handler returned.
C33_SetReturnsGetDrops ==
    (Dispatched /\ last.invoked /\ last.outcome = "ok") =>
        /\ last.op = "set_resource" =>
              /\ last.hresult = state_handlers[<<last.pre, SET_RESOURCE>>].result
              /\ last.ret = Value(last.hresult)
        /\ last.op = "get_resource" =>
              /\ last.hresult = state_handlers[<<last.pre, GET_RESOURCE>>].result
              /\ last.ret = NoReturn

C33_Witness ==
    /\ Dispatched
    /\ last.op = "get_resource"
    /\ last.outcome = "ok"
    /\ last.hresult = "r2"
    /\ last.ret = NoReturn
    /\ <<IDLE, SET_RESOURCE>> \in DOMAIN state_handlers
    /\ set_resource(state_handlers, IDLE, Params).ret = Value("r1")

\* The last call dispatched an event whose handler was called, returned and
\* defines no transition.
NoTransition ==
    /\ Dispatched
    /\ last.invoked
    /\ last.raised = None
    /\ last.next \notin ResourceAgentState

\* C34: an on_event call whose handler is registered and defines no
\* transition returns the handler's result; the engine calls the handler
\* and nothing else, neither the EXIT nor the ENTER hook of the current
\* state, so the only records are the handler's own; the current state is
\* left as it was.
C34_NoTransitionNoHooks ==
    NoTransition =>
        LET h == state_handlers[<<last.pre, last.event>>]
        IN  /\ last.hresult = h.result
            /\ last.steps = << Step("handler", last.pre) >>
            /\ last.records = Invoke(h, last.pre).records
            /\ last.event \notin {ENTER, EXIT} => last.records = << >>
            /\ last.post = last.pre
            /\ current_state = last.pre

C34_Witness ==
    /\ NoTransition
    /\ last.op = "set_resource"
    /\ last.pre = COMMAND
    /\ last.hresult = "r1"
    /\ last.ret = Value("r1")
    /\ last.records = << >>
    /\ current_state = COMMAND

\* What the last recv_packet published.
LastPublished ==
    SubSeq(streams.published, streams.before + 1, Len(streams.published))

\* C35: neither transform publishes anything for an empty packet; for a
\* granule the L0 transform publishes one message on the conductivity
\* stream, one on the temperature stream and one on the pressure stream, in
\* that order, each carrying the granule's value of that field, and the
\* salinity transform publishes one message on the salinity stream.
C35_TransformsPublish ==
    streams.received > 0 =>
        IF streams.packet.empty
        THEN LastPublished = << >>
        ELSE IF streams.transform = "ctd_L0_all"
        THEN /\ Len(LastPublished) = 3
             /\ LastPublished[1].stream = "conductivity"
             /\ LastPublished[1].msg.value = <<streams.packet.conductivity>>
             /\ LastPublished[2].stream = "temperature"
             /\ LastPublished[2].msg.value = <<streams.packet.temp>>
             /\ LastPublished[3].stream = "pressure"
             /\ LastPublished[3].msg.value = <<streams.packet.pressure>>
             /\ \A i \in 1..3 : LastPublished[i].msg.time = streams.packet.time
        ELSE /\ Len(LastPublished) = 1
             /\ LastPublished[1].stream = "salinity"
             /\ LastPublished[1].msg.field = "salinity"
             /\ LastPublished[1].msg.time = streams.packet.time

C35_Witness ==
    /\ streams.transform = "ctd_L0_all"
    /\ streams.received = 2
    /\ ~streams.packet.empty
    /\ streams.before = 3
    /\ Len(streams.published) = 6
    /\ streams.published[5].stream = "temperature"

====
